---------------------------- MODULE Spec2Model ----------------------------
(***************************************************************************)
(* A model of the Scribe workflow engine: the task/pipeline dispatcher     *)
(* (runWorkflow, Pipeline), the node drain loop (Node), the graph          *)
(* container (Graph) and the per-run egress queue (Output, Edge).          *)
(*                                                                         *)
(* The engine runs on one JavaScript thread.  An action of this module is  *)
(* one synchronous stretch of code between two suspension points.          *)
(***************************************************************************)
EXTENDS Integers, Sequences, FiniteSets, TLC

(***************************************************************************)
(* Bounds of the model.                                                    *)
(***************************************************************************)
MaxTasks == 3

MaxCtx == 4

MaxConcurrency == 2

MaxNodes == 2

MaxEdges == 2

MaxGraphRuns == 1

MaxGraphOps == 5

MaxOutEdges == 2

MaxFlushes == 2

MaxWrites == 2

MaxStack == 3

MaxOutputOps == 4

MaxPushItems == 2

MaxNodeOps == 3

MaxGraphs == 2

MaxRunCalls == 2

MaxContinuations == 2

(***************************************************************************)
(* Helpers on sequences.                                                   *)
(***************************************************************************)
Last(s) == s[Len(s)]

Front(s) == SubSeq(s, 1, Len(s) - 1)

Range(s) == {s[i] : i \in 1..Len(s)}

SeqsUpTo(S, n) == UNION {[1..m -> S] : m \in 0..n}

Min(a, b) == IF a < b THEN a ELSE b

Max(a, b) == IF a > b THEN a ELSE b

(***************************************************************************)
(*                     THE STATE                                           *)
(***************************************************************************)
\* Part 1: tasks and pipelines.
VARIABLES
  workflows,   \* Pipeline.#workflows of the pipeline under test
  snap,        \* opCtx.workflows: the list the top-level call was made on
  call,        \* the top-level call: which entry point, with a tail or not
  runs,        \* one record per Pipeline.runFor activation: its cursor and tail
  stack,       \* the chain of awaiting async frames, innermost last
  exc,         \* the error being thrown up the chain (<<>>: none)
  counter,     \* ctx.counter
  trace,       \* the forward parts, tail calls and backward parts, in order
  tailCalls,   \* how often the caller's tail has been invoked
  tailSeen,    \* ctx.counter as the caller's tail last saw it
  status       \* "idle", "running", "resolved" or "rejected"

pvars == <<workflows, snap, call, runs, stack, exc, counter, trace,
           tailCalls, tailSeen, status>>

\* Part 2: the node and its drain loop.
VARIABLES
  initialized,  \* Node.#initialized
  corrupted,    \* Node.#corrupted
  initPending,  \* the init hook has not yet called its continuation
  looping,      \* Node.#looping
  concurrency,  \* Node.concurrency: [defined, value]
  queue,        \* Node.#queue: the contexts waiting, oldest first
  incoming,     \* contexts whose incoming hook has not yet called next
  arrived,      \* how many contexts read has been called with
  accepted,     \* the contexts read has queued
  batch,        \* `contexts` of the loop iteration that is awaiting
  running,      \* the contexts with a Node.runFor invocation in flight
  rejected,     \* the contexts of the batch whose runFor has rejected
  ran,          \* per context, how often Node.runFor was invoked with it
  settled,      \* the contexts whose runFor has settled
  readError,    \* the error the last read threw ("": none)
  errorEvents   \* how many error events the node has dispatched

nvars == <<initialized, corrupted, initPending, looping, concurrency, queue,
           incoming, arrived, accepted, batch, running, rejected, ran,
           settled, readError, errorEvents>>

\* Part 3: the graph, its nodes and its edges.
VARIABLES
  nodeState,   \* per node: "initialized", "uninitialized" or "corrupted"
  nodeEdges,   \* per node: Node.#edges, in insertion order
  nodeGraph,   \* per node: whether Node.graph refers to the graph
  nodes,       \* Graph.#nodes, in insertion order
  edges,       \* Graph.#edges, in insertion order
  edgeEnds,    \* the Edge objects constructed so far: their source and target
  delivered,   \* per node: how many contexts Graph.runFor has queued on it
  graphRuns,   \* how many times Graph.runFor has been called
  graphRun,    \* the outcome of the last Graph.runFor
  graphOps,    \* how many operations the graph and its nodes have been through
  lastOp       \* the last addNode/addEdge/removeNode/removeEdge and its outcome

gvars == <<nodeState, nodeEdges, nodeGraph, nodes, edges, edgeEnds, delivered,
           graphRuns, graphRun, graphOps, lastOp>>

\* Part 4: the Output of one run of a node, and the edges queued on it.
VARIABLES
  sourceState,     \* the Output's node: "initialized", "uninitialized", "corrupted"
  sourceOutgoing,  \* the `outgoing` hook of the Output's node
  edgeWriteOp,     \* per edge: its `write` hook
  targetState,     \* the state of the node the edges lead to
  targetOutgoing,  \* the `outgoing` hook of the node the edges lead to
  flushed,         \* Output.#flushed
  outEdges,        \* Output.#edges, in insertion order
  queueError,      \* the error the last Output.queue or Output.remove threw
  flushes,         \* one record per Output.flush call
  edgeWrites,      \* one record per Edge.write call made on an edge directly
  written,         \* per edge: how often a node or a caller invoked Edge.write
  processes,       \* one record per source.process(edge, ctx) call made directly
  targetQueue,     \* how many contexts the edges have put on the target's queue
  outErrors,       \* how many error events the Output's node has dispatched
  outOps           \* how many calls the Output, its node and its edges have had

ovars == <<sourceState, sourceOutgoing, edgeWriteOp, targetState,
           targetOutgoing, flushed, outEdges, queueError, flushes, edgeWrites,
           written, processes, targetQueue, outErrors, outOps>>

\* Part 5: a call of Pipeline.push.
VARIABLES
  push   \* the Pipeline.push call: its items and their outcome

hvars == <<push>>

\* Part 6: a second caller of the pipeline.
VARIABLES
  parked   \* the call, context and call chain of the caller that is not running

cvars == <<parked>>

\* Part 1, failures: the tail the caller passes and the pipeline's listeners.
VARIABLES
  tailFails,       \* the tail the caller passes rejects when it is invoked
  pipelineErrors   \* the error events dispatched on the pipelines, in order

evars == <<tailFails, pipelineErrors>>

\* Part 3, runWorkflow on a graph: the call and its continuation.
VARIABLES
  graphCall   \* where runWorkflow(graph, ctx, tail) is, and what it has invoked

wvars == <<graphCall>>

\* Part 7: the operations of one node and its lifecycle.
VARIABLES
  nodeEdgeSet,  \* Node.#edges
  opHooks,      \* per operation: the hook the node was constructed with
  lastCall,     \* the last operation called on the node and how it ended
  history,      \* what has happened to the node so far
  nodeOps       \* the number of operations called on the node so far

kvars == <<nodeEdgeSet, opHooks, lastCall, history, nodeOps>>

\* Part 2, construction: what the constructor's promise chain has emitted.
VARIABLES
  nodeEvents,   \* the lifecycle events dispatched on the node, in order
  constructed   \* the node's flags when its #init settled

lvars == <<nodeEvents, constructed>>

\* Part 8: several graphs and the nodes they share.
VARIABLES
  graphNodes,   \* per graph: Graph.#nodes
  graphOf,      \* per node: Node.graph, 0 when it is undefined
  lastGraphOp   \* the last addNode or removeNode call

mvars == <<graphNodes, graphOf, lastGraphOp>>

\* Part 4, the run that owns the Output: Node.runFor around the run logic.
VARIABLES
  autoFlush,   \* Output.autoFlush
  nodeRun      \* where Node.runFor is, and the flush it has called itself

rvars == <<autoFlush, nodeRun>>

\* Part 3, the duplicate of the graph.
VARIABLES
  copy         \* what the last Graph.duplicate call returned

dvars == <<copy>>

\* Part 9: the invocations of Node.runFor and of their continuations.
VARIABLES
  runCalls     \* one record per Node.runFor invocation: its opCtx and hook

xvars == <<runCalls>>

\* The variables of parts 8 and later.
extvars == <<mvars, rvars, dvars, xvars>>

vars ==
  <<pvars, nvars, gvars, ovars, hvars, cvars, evars, wvars, kvars, lvars,
    extvars>>

\* What an action of one part leaves alone: the state of the other parts.
PipelineFrame ==
  UNCHANGED <<nvars, gvars, ovars, hvars, cvars, wvars, kvars, lvars, extvars>>

PipelineOnly == PipelineFrame /\ UNCHANGED evars

NodeFrame ==
  UNCHANGED <<pvars, gvars, ovars, hvars, cvars, evars, wvars, extvars>>

NodeOps == NodeFrame /\ UNCHANGED kvars

NodeOnly == NodeOps /\ UNCHANGED lvars

GraphFrame ==
  UNCHANGED <<pvars, nvars, ovars, hvars, cvars, evars, kvars, lvars, extvars>>

GraphOnly == GraphFrame /\ UNCHANGED wvars

OutputOnly ==
  UNCHANGED <<pvars, nvars, gvars, hvars, cvars, evars, wvars, kvars, lvars,
              extvars>>

PushOnly ==
  UNCHANGED <<nvars, gvars, ovars, cvars, evars, wvars, kvars, lvars, extvars, snap,
              call, runs, stack, exc, counter, trace, tailCalls, tailSeen,
              status>>

CallerOnly ==
  UNCHANGED <<nvars, gvars, ovars, hvars, evars, wvars, kvars, lvars, extvars,
              workflows, runs>>

\* The variables of parts 1 to 7.
corevars ==
  <<pvars, nvars, gvars, ovars, hvars, cvars, evars, wvars, kvars, lvars>>

GraphsOnly == UNCHANGED <<corevars, rvars, dvars, xvars>>

InvocationOnly == UNCHANGED <<corevars, mvars, rvars, dvars>>

RunOnly ==
  UNCHANGED <<pvars, nvars, gvars, hvars, cvars, evars, wvars, kvars, lvars,
              mvars, dvars, xvars>>

DuplicateOnly ==
  UNCHANGED <<pvars, nvars, ovars, hvars, cvars, evars, wvars, kvars, lvars,
              mvars, rvars, xvars>>

(***************************************************************************)
(*                     PART 1: TASKS AND PIPELINES                         *)
(***************************************************************************)
\* The behaviours of a task: "inc" is the tasks of the tests (increment, await
\* next, increment); "halt" increments and returns without calling next;
\* "throw" increments and throws.
TaskKinds == {"inc", "halt", "throw"}

Task(k, i) == [type |-> "task", kind |-> k, id |-> i, workflows |-> <<>>]

PipelineW(ws) == [type |-> "pipeline", kind |-> "", id |-> 0, workflows |-> ws]

isTask(w) == w.type = "task"

isPipeline(w) == w.type = "pipeline"

\* Continuations: undefined, the caller's tail, or the `next` closure of a run.
NoneK == [c |-> "none", run |-> 0]

TailK == [c |-> "tail", run |-> 0]

NextK(r) == [c |-> "next", run |-> r]

TaskFrame(w, k) ==
  [f |-> "task", run |-> 0, kind |-> w.kind, id |-> w.id, cont |-> k, pc |-> "fwd"]

NextFrame(r) ==
  [f |-> "next", run |-> r, kind |-> "", id |-> 0, cont |-> NoneK, pc |-> ""]

RunForFrame(r) ==
  [f |-> "runFor", run |-> r, kind |-> "", id |-> 0, cont |-> NoneK, pc |-> ""]

\* The tasks of a workflow list in execution order, nested pipelines opened.
RECURSIVE Flatten(_)
Flatten(ws) ==
  IF ws = <<>> THEN <<>>
  ELSE (IF isTask(Head(ws)) THEN <<Head(ws)>> ELSE Flatten(Head(ws).workflows))
       \o Flatten(Tail(ws))

\* A pipeline of the tasks kinds[1..n], numbered in execution order; with nest,
\* the tasks lo..hi (none when hi = lo - 1) are held by a nested pipeline.
BuildWorkflows(kinds, nest, lo, hi) ==
  LET T(i) == Task(kinds[i], i)
      n == Len(kinds)
  IN  IF ~nest THEN [i \in 1..n |-> T(i)]
      ELSE [i \in 1..(lo - 1) |-> T(i)]
           \o <<PipelineW([j \in 1..(hi - lo + 1) |-> T(lo + j - 1)])>>
           \o [i \in 1..(n - hi) |-> T(hi + i)]

\* A pipeline of tasks of the kinds ks, flat or with a nested pipeline; no call
\* has been made.
PipelineOf(ks) ==
  /\ \E kinds \in SeqsUpTo(ks, MaxTasks), nest \in BOOLEAN :
       \E lo \in 1..(Len(kinds) + 1) :
         \E hi \in (lo - 1)..Len(kinds) :
           /\ (~nest => lo = 1 /\ hi = 0)
           /\ workflows = BuildWorkflows(kinds, nest, lo, hi)
  /\ snap = <<>>
  /\ call = [mode |-> "none", tail |-> FALSE]
  /\ runs = <<>>
  /\ stack = <<>>
  /\ exc = <<>>
  /\ counter = 0
  /\ trace = <<>>
  /\ tailCalls = 0
  /\ tailSeen = 0
  /\ status = "idle"

PInit == PipelineOf(TaskKinds)

\* Tasks that call next once, not at all, or twice: "twice" increments, awaits
\* next, awaits next again and increments.
RepeatingKinds == {"inc", "halt", "twice"}

PRepeatInit == PipelineOf(RepeatingKinds)

\* runWorkflow(workflow, ctx, tail): the frames the dispatch pushes and the runs
\* after it.  A task is called with the continuation; a pipeline's runFor takes
\* its snapshot, passes the default runFor hook and calls next().
runWorkflow(w, k, rs) ==
  IF isTask(w)
  THEN [frames |-> <<TaskFrame(w, k)>>, runs |-> rs]
  ELSE [frames |-> <<RunForFrame(Len(rs) + 1), NextFrame(Len(rs) + 1)>>,
        runs |-> Append(rs, [cursor |-> w.workflows, tail |-> k])]

\* Calling a continuation: what it pushes, and whether the caller's tail ran.
CallCont(k) ==
  [frames |-> IF k.c = "next" THEN <<NextFrame(k.run)>> ELSE <<>>,
   tail |-> k.c = "tail"]

\* What awaiting a continuation throws at once: the rejection of the tail.
TailResult(called) == IF called /\ tailFails THEN <<"tail error">> ELSE <<>>

TailEffect(called) ==
  /\ tailCalls' = IF called THEN tailCalls + 1 ELSE tailCalls
  /\ tailSeen' = IF called THEN counter' ELSE tailSeen
  /\ trace' = IF called THEN Append(trace, [ev |-> "tail", id |-> 0]) ELSE trace

\* Pipeline.push(task) with the default push hook: the task is appended.
Push(kind) ==
  /\ PipelineOnly
  /\ status \in {"idle", "running"}
  /\ Len(Flatten(workflows)) < MaxTasks
  /\ workflows' = Append(workflows, Task(kind, Len(Flatten(workflows)) + 1))
  /\ UNCHANGED <<snap, call, runs, stack, exc, counter, trace, tailCalls,
                 tailSeen, status>>

\* pipeline.runFor(ctx, tail) / runWorkflow(pipeline, ctx, tail) from the caller.
RunFor(withTail) ==
  /\ PipelineOnly
  /\ status = "idle"
  /\ LET d == runWorkflow(PipelineW(workflows),
                          IF withTail THEN TailK ELSE NoneK, runs)
     IN  /\ runs' = d.runs
         /\ stack' = d.frames
  /\ snap' = workflows
  /\ call' = [mode |-> "pipeline", tail |-> withTail]
  /\ status' = "running"
  /\ UNCHANGED <<workflows, exc, counter, trace, tailCalls, tailSeen>>

\* runWorkflow(task, ctx, tail) from the caller, as in the task test.
RunTask(kind, withTail) ==
  /\ PipelineOnly
  /\ status = "idle"
  /\ LET w == Task(kind, 1)
         d == runWorkflow(w, IF withTail THEN TailK ELSE NoneK, runs)
     IN  /\ runs' = d.runs
         /\ stack' = d.frames
         /\ snap' = <<w>>
  /\ call' = [mode |-> "task", tail |-> withTail]
  /\ status' = "running"
  /\ UNCHANGED <<workflows, exc, counter, trace, tailCalls, tailSeen>>

\* Mutants of Shift: a cursor that advances by two, and one that takes the
\* last workflow instead of the first.
ShiftTwice(cursor) ==
  [workflow |-> Head(cursor),
   rest |-> IF Len(cursor) > 1 THEN Tail(Tail(cursor)) ELSE <<>>]

ShiftLast(cursor) == [workflow |-> Last(cursor), rest |-> Front(cursor)]

\* The cursor of `next`: workflows.shift().
Shift(cursor) == [workflow |-> Head(cursor), rest |-> Tail(cursor)]

\* Mutant of Pending: the cursor also sees what was pushed since the call.
PendingLive(r) ==
  runs[r].cursor \o SubSeq(workflows, Len(snap) + 1, Len(workflows))

\* The workflows left in the cursor of run r: the local copy of its snapshot.
Pending(r) == runs[r].cursor

\* One call of a run's `next`: shift the cursor and dispatch the workflow with
\* next as its continuation, or call the tail when the list is exhausted.
NextStep ==
  /\ PipelineOnly
  /\ status = "running" /\ exc = <<>> /\ stack # <<>>
  /\ Last(stack).f = "next"
  /\ LET r == Last(stack).run
         cur == Pending(r)
     IN  IF cur # <<>>
         THEN LET s == Shift(cur)
                  rs == [runs EXCEPT ![r].cursor = s.rest]
                  d == runWorkflow(s.workflow, NextK(r), rs)
              IN  /\ runs' = d.runs
                  /\ stack' = Front(stack) \o d.frames
                  /\ counter' = counter
                  /\ exc' = exc
                  /\ TailEffect(FALSE)
         ELSE LET c == CallCont(runs[r].tail)
              IN  /\ runs' = runs
                  /\ stack' = Front(stack) \o c.frames
                  /\ counter' = counter
                  /\ exc' = TailResult(c.tail)
                  /\ TailEffect(c.tail)
  /\ UNCHANGED <<workflows, snap, call, status>>

\* The forward part of a task: up to its call of next, its return or its throw.
TaskForward ==
  /\ PipelineOnly
  /\ status = "running" /\ exc = <<>> /\ stack # <<>>
  /\ Last(stack).f = "task" /\ Last(stack).pc = "fwd"
  /\ LET fr == Last(stack)
         fwd == Append(trace, [ev |-> "fwd", id |-> fr.id])
     IN  /\ counter' = counter + 1
         /\ CASE fr.kind \in {"inc", "twice"} ->
                   LET c == CallCont(fr.cont)
                   IN  /\ stack' = Front(stack)
                                     \o <<[fr EXCEPT !.pc = IF fr.kind = "inc"
                                                            THEN "bwd"
                                                            ELSE "again"]>>
                                     \o c.frames
                       /\ exc' = TailResult(c.tail)
                       /\ tailCalls' = IF c.tail THEN tailCalls + 1 ELSE tailCalls
                       /\ tailSeen' = IF c.tail THEN counter' ELSE tailSeen
                       /\ trace' = IF c.tail
                                   THEN Append(fwd, [ev |-> "tail", id |-> 0])
                                   ELSE fwd
              [] fr.kind = "halt" ->
                   /\ stack' = Front(stack)
                   /\ exc' = exc
                   /\ trace' = fwd
                   /\ UNCHANGED <<tailCalls, tailSeen>>
              [] fr.kind = "throw" ->
                   /\ stack' = Front(stack)
                   /\ exc' = <<"task error">>
                   /\ trace' = fwd
                   /\ UNCHANGED <<tailCalls, tailSeen>>
  /\ UNCHANGED <<workflows, snap, call, runs, status>>

\* A task that calls next twice resumes after its first `await next()` and
\* calls the same continuation again.
TaskAgain ==
  /\ PipelineOnly
  /\ status = "running" /\ exc = <<>> /\ stack # <<>>
  /\ Last(stack).f = "task" /\ Last(stack).pc = "again"
  /\ LET fr == Last(stack)
         c == CallCont(fr.cont)
     IN  /\ stack' = Front(stack) \o <<[fr EXCEPT !.pc = "bwd"]>> \o c.frames
         /\ counter' = counter
         /\ exc' = TailResult(c.tail)
         /\ TailEffect(c.tail)
  /\ UNCHANGED <<workflows, snap, call, runs, status>>

\* The backward part of a task: it resumes after `await next()` and returns.
TaskBackward ==
  /\ PipelineOnly
  /\ status = "running" /\ exc = <<>> /\ stack # <<>>
  /\ Last(stack).f = "task" /\ Last(stack).pc = "bwd"
  /\ counter' = counter + 1
  /\ trace' = Append(trace, [ev |-> "bwd", id |-> Last(stack).id])
  /\ stack' = Front(stack)
  /\ UNCHANGED <<workflows, snap, call, runs, exc, tailCalls, tailSeen, status>>

\* Mutant of RunForReturn: runFor keeps calling next while workflows are left.
RunForReturnDrain ==
  /\ PipelineOnly
  /\ status = "running" /\ exc = <<>> /\ stack # <<>>
  /\ Last(stack).f = "runFor"
  /\ stack' = IF runs[Last(stack).run].cursor # <<>>
               THEN Append(stack, NextFrame(Last(stack).run))
               ELSE Front(stack)
  /\ UNCHANGED <<workflows, snap, call, runs, exc, counter, trace, tailCalls,
                 tailSeen, status>>

\* Pipeline.runFor returns once its runFor hook has returned.
RunForReturn ==
  /\ PipelineOnly
  /\ status = "running" /\ exc = <<>> /\ stack # <<>>
  /\ Last(stack).f = "runFor"
  /\ stack' = Front(stack)
  /\ UNCHANGED <<workflows, snap, call, runs, exc, counter, trace, tailCalls,
                 tailSeen, status>>

\* An error passes through an awaiting frame: a task does not catch it (its
\* backward part is skipped); Pipeline.runFor wraps it as "Pipeline failed".
\* Mutant of Caught: runFor lets the error through as it is.
CaughtNever(fr, err) == err

\* The catch of Pipeline.runFor: the error becomes the cause of an
\* AggregateError "Pipeline failed"; a task has no catch.
Caught(fr, err) == IF fr.f = "runFor" THEN <<"Pipeline failed">> \o err ELSE err

Unwind ==
  /\ PipelineFrame
  /\ status = "running" /\ exc # <<>> /\ stack # <<>>
  /\ exc' = Caught(Last(stack), exc)
  /\ pipelineErrors' =
       IF Last(stack).f = "runFor"
       THEN Append(pipelineErrors, [run |-> Last(stack).run, error |-> exc'])
       ELSE pipelineErrors
  /\ tailFails' = tailFails
  /\ stack' = Front(stack)
  /\ UNCHANGED <<workflows, snap, call, runs, counter, trace, tailCalls,
                 tailSeen, status>>

\* The promise of the top-level call settles.
Settle ==
  /\ PipelineOnly
  /\ status = "running" /\ stack = <<>>
  /\ status' = IF exc = <<>> THEN "resolved" ELSE "rejected"
  /\ UNCHANGED <<workflows, snap, call, runs, stack, exc, counter, trace,
                 tailCalls, tailSeen>>

\* A pipeline whose tasks may call next twice is run.
PRepeatNext ==
  \/ \E withTail \in BOOLEAN : RunFor(withTail)
  \/ NextStep
  \/ TaskForward
  \/ TaskAgain
  \/ TaskBackward
  \/ RunForReturn
  \/ Settle

PNext ==
  \/ \E kind \in TaskKinds : Push(kind)
  \/ \E withTail \in BOOLEAN : RunFor(withTail)
  \/ \E kind \in TaskKinds, withTail \in BOOLEAN : RunTask(kind, withTail)
  \/ NextStep
  \/ TaskForward
  \/ TaskBackward
  \/ RunForReturn
  \/ Unwind
  \/ Settle

(***************************************************************************)
(*                     PART 2: THE NODE AND ITS DRAIN LOOP                 *)
(***************************************************************************)
Ctxs == 1..MaxCtx

Undefined == [defined |-> FALSE, value |-> 0]

Limit(k) == [defined |-> TRUE, value |-> k]

NotConstructed == [done |-> FALSE, initialized |-> FALSE, corrupted |-> FALSE]

\* The construction of a node: the init hook has either already called its
\* continuation (the node is initialized) or is still to do so.
NInit ==
  /\ initPending \in BOOLEAN
  /\ initialized = ~initPending
  /\ nodeEvents = IF initPending THEN <<>> ELSE <<"nodeInitialized">>
  /\ constructed = IF initPending THEN NotConstructed
                   ELSE [done |-> TRUE, initialized |-> TRUE,
                         corrupted |-> FALSE]
  /\ corrupted = FALSE
  /\ looping = FALSE
  /\ concurrency \in {Undefined} \cup {Limit(k) : k \in 1..MaxConcurrency}
  /\ queue = <<>>
  /\ incoming = {}
  /\ arrived = 0
  /\ accepted = {}
  /\ batch = <<>>
  /\ running = {}
  /\ rejected = {}
  /\ ran = [c \in Ctxs |-> 0]
  /\ settled = {}
  /\ readError = ""
  /\ errorEvents = 0

\* Mutant of BatchSize: the concurrency limit is ignored.
BatchSizeAll(q, conc) == Len(q)

\* The number of contexts queue.splice(0, concurrency ?? queue.length) removes.
BatchSize(q, conc) ==
  IF conc.defined THEN Min(Max(conc.value, 0), Len(q)) ELSE Len(q)

\* Mutant of Splice: the batch is taken from the end of the queue.
SpliceFromEnd(q, n) ==
  [contexts |-> SubSeq(q, Len(q) - n + 1, Len(q)),
   rest |-> SubSeq(q, 1, Len(q) - n)]

\* queue.splice(0, n): the first n contexts are removed and returned.
Splice(q, n) ==
  [contexts |-> SubSeq(q, 1, n), rest |-> SubSeq(q, n + 1, Len(q))]

\* Mutant of LoopCondition: the loop runs one batch only.
LoopConditionOnce(q) == q # <<>> /\ ~looping

\* The condition of the drain loop's while.
LoopCondition(q) == Len(q) > 0

\* The synchronous part of Node.runFor: it rejects at once on a node that is
\* corrupted or not initialized, and otherwise runs the hooks up to their await.
RunForStarts == ~corrupted /\ initialized

\* The drain loop from its while test to its await, on queue q: the next batch is
\* spliced off and runFor is invoked on each of its contexts, or the loop ends.
LoopIteration(q) ==
  IF LoopCondition(q)
  THEN LET n == BatchSize(q, concurrency)
           contexts == Splice(q, n).contexts
       IN  /\ looping' = TRUE
           /\ queue' = Splice(q, n).rest
           /\ batch' = contexts
           /\ running' = IF RunForStarts THEN running \cup Range(contexts)
                         ELSE running
           /\ rejected' = IF RunForStarts THEN {} ELSE Range(contexts)
           /\ settled' = IF RunForStarts THEN settled
                         ELSE settled \cup Range(contexts)
           /\ ran' = [c \in Ctxs |-> IF c \in Range(contexts)
                                     THEN ran[c] + 1 ELSE ran[c]]
  ELSE /\ looping' = FALSE
       /\ queue' = q
       /\ batch' = <<>>
       /\ rejected' = {}
       /\ UNCHANGED <<running, settled, ran>>

\* The guards of Node.#loop: the message it throws, "" when it goes on.
LoopGuard ==
  IF corrupted THEN "Node is corrupted"
  ELSE IF ~initialized THEN "Node is not initialized"
  ELSE IF looping THEN "Node is already looping"
  ELSE ""

\* Mutant of StartsLoop: read calls #loop whenever it has queued a context.
StartsLoopAlways == TRUE

\* The test of read before it calls #loop: if (!this.#looping).
StartsLoop == ~looping

\* The continuation of read's incoming hook: the context is queued and, when
\* the node is not looping, the loop is started (it throws on a node that is
\* corrupted or not initialized, which read reports as an error event).
Enqueue(c) ==
  /\ accepted' = accepted \cup {c}
  /\ IF ~StartsLoop
     THEN /\ queue' = Append(queue, c)
          /\ UNCHANGED <<looping, batch, running, rejected, ran, settled,
                         errorEvents>>
     ELSE IF LoopGuard # ""
     THEN /\ queue' = Append(queue, c)
          /\ errorEvents' = errorEvents + 1
          /\ UNCHANGED <<looping, batch, running, rejected, ran, settled>>
     ELSE /\ LoopIteration(Append(queue, c))
          /\ errorEvents' = errorEvents

\* Node.read(null, ctx) with an incoming hook that calls next synchronously, or
\* the read that throws because the node is corrupted or not initialized.
Read ==
  /\ NodeOnly
  /\ arrived < MaxCtx
  /\ arrived' = arrived + 1
  /\ IF corrupted
     THEN /\ readError' = "Cannot read from corrupted node"
          /\ UNCHANGED <<accepted, queue, looping, batch, running, rejected,
                         ran, settled, errorEvents>>
     ELSE IF ~initialized
     THEN /\ readError' = "Cannot read from uninitialized node"
          /\ UNCHANGED <<accepted, queue, looping, batch, running, rejected,
                         ran, settled, errorEvents>>
     ELSE /\ readError' = ""
          /\ Enqueue(arrived + 1)
  /\ UNCHANGED <<initialized, corrupted, initPending, concurrency, incoming>>

\* Node.read(null, ctx) with an incoming hook that awaits before it calls next.
ReadAsync ==
  /\ NodeOnly
  /\ arrived < MaxCtx
  /\ ~corrupted /\ initialized
  /\ arrived' = arrived + 1
  /\ incoming' = incoming \cup {arrived + 1}
  /\ readError' = ""
  /\ UNCHANGED <<initialized, corrupted, initPending, looping, concurrency,
                 queue, accepted, batch, running, rejected, ran, settled,
                 errorEvents>>

\* An awaiting incoming hook calls next.
IncomingNext(c) ==
  /\ NodeOnly
  /\ c \in incoming
  /\ incoming' = incoming \ {c}
  /\ Enqueue(c)
  /\ UNCHANGED <<initialized, corrupted, initPending, concurrency, arrived,
                 readError>>

\* A Node.runFor invocation settles: the run logic returned (ok) or threw.
RunSettle(c, ok) ==
  /\ NodeOnly
  /\ c \in running
  /\ running' = running \ {c}
  /\ settled' = settled \cup {c}
  /\ rejected' = IF ok THEN rejected ELSE rejected \cup {c}
  /\ UNCHANGED <<initialized, corrupted, initPending, looping, concurrency,
                 queue, incoming, arrived, accepted, batch, ran, readError,
                 errorEvents>>

\* Mutant of Remaining: a failed batch ends the loop and drops the queue.
RemainingNoneAfterFailure(q, failed) == IF failed THEN <<>> ELSE q

\* The queue the while of the drain loop tests after a batch: the try/catch is
\* inside the while, so a failed batch leaves the loop and the queue alone.
Remaining(q, failed) == q

\* Promise.allSettled of the batch resolves: rejections are reported as one
\* error event and the loop goes round.
LoopResume ==
  /\ NodeOnly
  /\ looping
  /\ Range(batch) \cap running = {}
  /\ errorEvents' = IF rejected # {} THEN errorEvents + 1 ELSE errorEvents
  /\ LoopIteration(Remaining(queue, rejected # {}))
  /\ UNCHANGED <<initialized, corrupted, initPending, concurrency, incoming,
                 arrived, accepted, readError>>

\* The constructor's chain on #init(): `then` dispatches NodeInitializedEvent
\* when #init resolved, `catch` dispatches NodeInitializationErrorEvent.
Construction(resolved) ==
  /\ nodeEvents' = Append(nodeEvents, IF resolved THEN "nodeInitialized"
                                      ELSE "nodeInitializationError")
  /\ constructed' = [done |-> TRUE, initialized |-> initialized',
                     corrupted |-> corrupted']

\* The init hook calls its continuation: the node becomes initialized.
InitDone ==
  /\ NodeOps
  /\ initPending
  /\ initPending' = FALSE
  /\ IF initialized
     THEN initialized' = FALSE /\ corrupted' = TRUE
     ELSE initialized' = TRUE /\ corrupted' = corrupted
  /\ Construction(~initialized)
  /\ UNCHANGED <<looping, concurrency, queue, incoming, arrived, accepted,
                 batch, running, rejected, ran, settled, readError,
                 errorEvents>>

\* The init hook throws: the node is corrupted.
InitFail ==
  /\ NodeOps
  /\ initPending
  /\ initPending' = FALSE
  /\ initialized' = FALSE
  /\ corrupted' = TRUE
  /\ Construction(FALSE)
  /\ UNCHANGED <<looping, concurrency, queue, incoming, arrived, accepted,
                 batch, running, rejected, ran, settled, readError,
                 errorEvents>>

\* The init hook returns without calling its continuation: #init resolves and
\* the flags stay as they are.
InitSkip ==
  /\ NodeOps
  /\ initPending
  /\ initPending' = FALSE
  /\ UNCHANGED <<initialized, corrupted>>
  /\ Construction(TRUE)
  /\ UNCHANGED <<looping, concurrency, queue, incoming, arrived, accepted,
                 batch, running, rejected, ran, settled, readError,
                 errorEvents>>

\* Node.destroy() with the default destroy hook: an initialized node becomes
\* uninitialized; on any other node destroy throws and marks it corrupted.
Destroy ==
  /\ NodeOnly
  /\ initialized \/ ~corrupted
  /\ initialized' = FALSE
  /\ corrupted' = (corrupted \/ ~initialized)
  /\ UNCHANGED <<initPending, looping, concurrency, queue, incoming, arrived,
                 accepted, batch, running, rejected, ran, settled, readError,
                 errorEvents>>

NNext ==
  \/ Read
  \/ ReadAsync
  \/ \E c \in Ctxs : IncomingNext(c)
  \/ \E c \in Ctxs, ok \in BOOLEAN : RunSettle(c, ok)
  \/ LoopResume
  \/ InitDone
  \/ InitFail
  \/ Destroy

\* A node that is initialized and is never destroyed.
NLiveInit == NInit /\ ~initPending

\* An initialized node constructed with any number as its concurrency option:
\* the constructor stores the option as it is.
NAnyLimitInit ==
  /\ initPending = FALSE
  /\ initialized = TRUE
  /\ nodeEvents = <<"nodeInitialized">>
  /\ constructed = [done |-> TRUE, initialized |-> TRUE, corrupted |-> FALSE]
  /\ corrupted = FALSE
  /\ looping = FALSE
  /\ concurrency \in {Undefined} \cup {Limit(k) : k \in -1..MaxConcurrency}
  /\ queue = <<>>
  /\ incoming = {}
  /\ arrived = 0
  /\ accepted = {}
  /\ batch = <<>>
  /\ running = {}
  /\ rejected = {}
  /\ ran = [c \in Ctxs |-> 0]
  /\ settled = {}
  /\ readError = ""
  /\ errorEvents = 0

NLiveNext ==
  \/ Read
  \/ ReadAsync
  \/ \E c \in Ctxs : IncomingNext(c)
  \/ \E c \in Ctxs, ok \in BOOLEAN : RunSettle(c, ok)
  \/ LoopResume

(***************************************************************************)
(*                     PART 3: THE GRAPH                                   *)
(***************************************************************************)
Nodes == 1..MaxNodes

\* A Set's delete and add on its insertion-ordered contents.
SetDelete(s, x) == SelectSeq(s, LAMBDA y : y # x)

SetAdd(s, x) == IF x \in Range(s) THEN s ELSE Append(s, x)

NoRun ==
  [status |-> "none", message |-> "", causes |-> <<>>, targets |-> <<>>,
   dispatched |-> {}, failing |-> {}]

NoOp == [op |-> "none", arg |-> 0, ok |-> TRUE]

\* A graph created empty, and nodes created and initialized but in no graph.
GInit ==
  /\ nodeState = [n \in Nodes |-> "initialized"]
  /\ nodeEdges = [n \in Nodes |-> <<>>]
  /\ nodeGraph = [n \in Nodes |-> FALSE]
  /\ nodes = <<>>
  /\ edges = <<>>
  /\ edgeEnds = <<>>
  /\ delivered = [n \in Nodes |-> 0]
  /\ graphRuns = 0
  /\ graphRun = NoRun
  /\ graphOps = 0
  /\ lastOp = NoOp

\* One more operation, within the bound of the model.
GraphOp ==
  /\ GraphOnly
  /\ graphOps < MaxGraphOps
  /\ graphOps' = graphOps + 1

\* The guard of Node.addEdge, Node.removeEdge and Node.read.
Usable(n) == nodeState[n] = "initialized"

\* Graph.addNode(node) with the default hook.
AddNode(n) ==
  /\ GraphOp
  /\ graphRuns = 0
  /\ n \notin Range(nodes)
  /\ nodeGraph' = [nodeGraph EXCEPT ![n] = TRUE]
  /\ nodes' = SetAdd(nodes, n)
  /\ lastOp' = [op |-> "addNode", arg |-> n, ok |-> TRUE]
  /\ UNCHANGED <<nodeState, nodeEdges, edges, edgeEnds, delivered, graphRuns,
                 graphRun>>

\* Graph.addEdge(source, target): a new Edge is added to the source's edge set,
\* then to the target's, then to the graph's; a node that is corrupted or not
\* initialized rejects the add and ends the call there.
AddEdge(src, tgt) ==
  /\ GraphOp
  /\ graphRuns = 0
  /\ Len(edgeEnds) < MaxEdges
  /\ LET e == Len(edgeEnds) + 1
     IN  /\ edgeEnds' = Append(edgeEnds, [source |-> src, target |-> tgt])
         /\ IF ~Usable(src)
            THEN /\ lastOp' = [op |-> "addEdge", arg |-> e, ok |-> FALSE]
                 /\ UNCHANGED <<nodeEdges, edges>>
            ELSE IF ~Usable(tgt)
            THEN /\ nodeEdges' = [nodeEdges EXCEPT ![src] = SetAdd(@, e)]
                 /\ lastOp' = [op |-> "addEdge", arg |-> e, ok |-> FALSE]
                 /\ UNCHANGED edges
            ELSE /\ nodeEdges' = [n \in Nodes |->
                                    IF n \in {src, tgt}
                                    THEN SetAdd(nodeEdges[n], e)
                                    ELSE nodeEdges[n]]
                 /\ edges' = SetAdd(edges, e)
                 /\ lastOp' = [op |-> "addEdge", arg |-> e, ok |-> TRUE]
  /\ UNCHANGED <<nodeState, nodeGraph, nodes, delivered, graphRuns, graphRun>>

\* Graph.removeEdge(edge) on node edge sets ne and graph edge set ge: the edge
\* is removed from its source's edge set, then from its target's, then from the
\* graph's; a node that is corrupted or not initialized rejects the removal and
\* ends the call there.
removeEdge(e, ne, ge) ==
  LET src == edgeEnds[e].source
      tgt == edgeEnds[e].target
      ne1 == [ne EXCEPT ![src] = SetDelete(@, e)]
  IN  IF ~Usable(src) THEN [ok |-> FALSE, ne |-> ne, ge |-> ge]
      ELSE IF ~Usable(tgt) THEN [ok |-> FALSE, ne |-> ne1, ge |-> ge]
      ELSE [ok |-> TRUE,
            ne |-> [ne1 EXCEPT ![tgt] = SetDelete(@, e)],
            ge |-> SetDelete(ge, e)]

RemoveEdge(e) ==
  /\ GraphOp
  /\ e \in 1..Len(edgeEnds)
  /\ LET r == removeEdge(e, nodeEdges, edges)
     IN  /\ nodeEdges' = r.ne
         /\ edges' = r.ge
         /\ lastOp' = [op |-> "removeEdge", arg |-> e, ok |-> r.ok]
  /\ UNCHANGED <<nodeState, nodeGraph, nodes, edgeEnds, delivered, graphRuns,
                 graphRun>>

\* The loop of Graph.removeNode: removeEdge on each edge of the node's edge
\* set, in order, up to the first that rejects.
RECURSIVE removeEdges(_, _, _)
removeEdges(es, ne, ge) ==
  IF es = <<>> THEN [ok |-> TRUE, ne |-> ne, ge |-> ge]
  ELSE LET r == removeEdge(Head(es), ne, ge)
       IN  IF r.ok THEN removeEdges(Tail(es), r.ne, r.ge) ELSE r

\* opCtx.node.edges: the edges Graph.removeNode removes.
NodeEdgesOf(n) == nodeEdges[n]

\* Graph.removeNode(node): the node's edges are removed, then its graph
\* back-reference is cleared and it is deleted from the node set.
RemoveNode(n) ==
  /\ GraphOp
  /\ LET r == removeEdges(NodeEdgesOf(n), nodeEdges, edges)
     IN  /\ nodeEdges' = r.ne
         /\ edges' = r.ge
         /\ nodeGraph' = IF r.ok THEN [nodeGraph EXCEPT ![n] = FALSE]
                         ELSE nodeGraph
         /\ nodes' = IF r.ok THEN SetDelete(nodes, n) ELSE nodes
         /\ lastOp' = [op |-> "removeNode", arg |-> n, ok |-> r.ok]
  /\ lastOp' # lastOp \/ nodes' # nodes \/ nodeEdges' # nodeEdges
  /\ UNCHANGED <<nodeState, edgeEnds, delivered, graphRuns, graphRun>>

\* Node.destroy() on a node of the graph: an initialized node becomes
\* uninitialized; on any other node destroy throws and marks it corrupted.
DestroyNode(n) ==
  /\ GraphOp
  /\ graphRuns = 0
  /\ nodeState[n] # "corrupted"
  /\ nodeState' = [nodeState EXCEPT ![n] = IF @ = "initialized"
                                           THEN "uninitialized"
                                           ELSE "corrupted"]
  /\ UNCHANGED <<nodeEdges, nodeGraph, nodes, edges, edgeEnds, delivered,
                 graphRuns, graphRun, lastOp>>

\* Mutant of EntryNodes: every node of the graph is an entry node.
EntryNodesAll == nodes

\* opCtx.targets of Graph.runFor: the nodes that no edge of the graph targets.
EntryNodes ==
  SelectSeq(nodes, LAMBDA n : \A e \in Range(edges) : edgeEnds[e].target # n)

\* Node.read(null, ctx) as Node.process calls it: it throws on a node that is
\* corrupted or not initialized; otherwise the incoming hook runs and either
\* rejects or queues the context.
ReadThrows(n) ==
  IF nodeState[n] = "corrupted" THEN "Cannot read from corrupted node"
  ELSE IF nodeState[n] = "uninitialized" THEN "Cannot read from uninitialized node"
  ELSE ""

\* targets.map((node) => node.process(null, ctx)) from target i on: a throw ends
\* the map; a rejected promise is kept for Promise.allSettled.
RECURSIVE Dispatch(_, _, _, _)
Dispatch(ts, i, failing, acc) ==
  IF i > Len(ts) THEN acc
  ELSE LET n == ts[i]
           called == [acc EXCEPT !.dispatched = @ \cup {n}]
       IN  IF ReadThrows(n) # ""
           THEN [called EXCEPT !.thrown = ReadThrows(n)]
           ELSE IF n \in failing
           THEN Dispatch(ts, i + 1, failing,
                         [called EXCEPT !.causes = Append(@, "incoming hook failed")])
           ELSE Dispatch(ts, i + 1, failing,
                         [called EXCEPT !.queued = @ \cup {n}])

\* Graph.runFor(ctx) with the default runFor hook; `failing` are the nodes whose
\* incoming hook rejects.
runGraph(failing) ==
  /\ graphRuns < MaxGraphRuns
  /\ failing \subseteq Range(EntryNodes)
  /\ graphRuns' = graphRuns + 1
  /\ LET targets == EntryNodes
         d == Dispatch(targets, 1, failing,
                       [dispatched |-> {}, causes |-> <<>>, queued |-> {},
                        thrown |-> ""])
         run == [status |-> "rejected", message |-> "Failed to run graph",
                 causes |-> <<>>, targets |-> targets,
                 dispatched |-> d.dispatched, failing |-> failing]
     IN  /\ delivered' = [n \in Nodes |-> IF n \in d.queued
                                          THEN delivered[n] + 1
                                          ELSE delivered[n]]
         /\ graphRun' =
              IF targets = <<>>
              THEN [run EXCEPT !.causes = <<"Graph has no input nodes">>]
              ELSE IF d.thrown # ""
              THEN [run EXCEPT !.causes = <<d.thrown>>]
              ELSE IF d.causes # <<>>
              THEN [run EXCEPT !.causes = d.causes]
              ELSE [run EXCEPT !.status = "resolved", !.message = ""]
  /\ UNCHANGED <<nodeState, nodeEdges, nodeGraph, nodes, edges, edgeEnds,
                 lastOp>>

\* graph.runFor(ctx) from the caller.
GraphRunFor(failing) ==
  /\ GraphOp
  /\ runGraph(failing)

NoGraphCall ==
  [pc |-> "none", tail |-> FALSE, result |-> "none", tailCalls |-> 0,
   completions |-> 0]

\* runWorkflow(graph, ctx, tail), up to its await of graph.runFor(ctx).
RunWorkflowGraph(failing, withTail) ==
  /\ GraphFrame
  /\ graphOps < MaxGraphOps
  /\ graphOps' = graphOps + 1
  /\ graphCall.pc # "awaiting"
  /\ runGraph(failing)
  /\ graphCall' =
       [graphCall EXCEPT !.pc = "awaiting", !.tail = withTail,
                         !.result = graphRun'.status,
                         !.completions =
                            IF graphRun'.status = "resolved" /\ withTail
                            THEN @ + 1 ELSE @]

\* Mutant of TailDue: the continuation is invoked however the run settled.
TailDueAlways(result, tail) == tail

\* After `await workflow.runFor(ctx)`: a rejection leaves runWorkflow at the
\* await, otherwise `if (tail) await tail(ctx)`.
TailDue(result, tail) == result = "resolved" /\ tail

\* runWorkflow(graph, ctx, tail) after the await.
GraphContinue ==
  /\ GraphFrame
  /\ graphCall.pc = "awaiting"
  /\ graphCall' =
       [graphCall EXCEPT !.pc = IF graphCall.result = "resolved"
                                THEN "resolved" ELSE "rejected",
                         !.tailCalls =
                            IF TailDue(graphCall.result, graphCall.tail)
                            THEN @ + 1 ELSE @]
  /\ UNCHANGED gvars

\* The operations that change a graph.
\* A node object: the nodes the graph is built from have no parent.
Original(n) == [id |-> n, parent |-> 0]

\* What Array.find returns when no element matches, as a node.
NotFound == [id |-> 0, parent |-> 0]

\* Node.duplicate(): a new node object that names the node it was made from
\* as its parent.
NodeDuplicate(n, fresh) == [id |-> fresh, parent |-> n]

\* nodes.find((node) => node.parent === p)
FindByParent(ns, p) ==
  IF \E i \in 1..Len(ns) : ns[i].parent = p
  THEN ns[CHOOSE i \in 1..Len(ns) :
            /\ ns[i].parent = p
            /\ \A j \in 1..Len(ns) : ns[j].parent = p => i <= j]
  ELSE NotFound

NoCopy == [made |-> FALSE, deep |-> FALSE, nodes |-> <<>>, edges |-> <<>>]

\* The nodes of graph.duplicate(options): with deep the duplicate of every
\* node of the graph, otherwise the nodes themselves.
DuplicateNodes(deep) ==
  [i \in 1..Len(nodes) |->
     IF deep THEN NodeDuplicate(nodes[i], MaxNodes + i)
     ELSE Original(nodes[i])]

\* The edges of graph.duplicate(options): with deep a new edge for every edge
\* of the graph, between the new nodes whose parents are the edge's source and
\* target; otherwise the edges themselves.
DuplicateEdges(deep, ns) ==
  [i \in 1..Len(edges) |->
     IF deep
     THEN [id |-> MaxEdges + i,
           source |-> FindByParent(ns, edgeEnds[edges[i]].source),
           target |-> FindByParent(ns, edgeEnds[edges[i]].target)]
     ELSE [id |-> edges[i],
           source |-> Original(edgeEnds[edges[i]].source),
           target |-> Original(edgeEnds[edges[i]].target)]]

\* Graph.duplicate(options): a new graph made of these nodes and edges.
Duplicate(deep) ==
  /\ DuplicateOnly
  /\ graphOps < MaxGraphOps
  /\ graphOps' = graphOps + 1
  /\ graphRuns = 0
  /\ copy' = [made |-> TRUE, deep |-> deep,
              nodes |-> DuplicateNodes(deep),
              edges |-> DuplicateEdges(deep, DuplicateNodes(deep))]
  /\ lastOp' = [op |-> "duplicate", arg |-> 0, ok |-> TRUE]
  /\ UNCHANGED <<nodeState, nodeEdges, nodeGraph, nodes, edges, edgeEnds,
                 delivered, graphRuns, graphRun>>

\* A graph is built, changed and duplicated.
DNext ==
  \/ \E n \in Nodes : AddNode(n)
  \/ \E src \in Nodes, tgt \in Nodes : AddEdge(src, tgt)
  \/ \E e \in 1..MaxEdges : RemoveEdge(e)
  \/ \E n \in Nodes : RemoveNode(n)
  \/ \E deep \in BOOLEAN : Duplicate(deep)

GNext ==
  \/ \E n \in Nodes : AddNode(n)
  \/ \E src \in Nodes, tgt \in Nodes : AddEdge(src, tgt)
  \/ \E e \in 1..MaxEdges : RemoveEdge(e)
  \/ \E n \in Nodes : RemoveNode(n)
  \/ \E n \in Nodes : DestroyNode(n)

\* A graph is built, nodes are destroyed, and the graph is run.
GRunNext ==
  \/ \E n \in Nodes : AddNode(n)
  \/ \E src \in Nodes, tgt \in Nodes : AddEdge(src, tgt)
  \/ \E n \in Nodes : DestroyNode(n)
  \/ \E failing \in SUBSET Nodes : GraphRunFor(failing)

\* A graph is built, nodes are destroyed, and the graph is run as a workflow.
GWorkflowNext ==
  \/ \E n \in Nodes : AddNode(n)
  \/ \E src \in Nodes, tgt \in Nodes : AddEdge(src, tgt)
  \/ \E n \in Nodes : DestroyNode(n)
  \/ \E failing \in SUBSET Nodes, withTail \in BOOLEAN :
        RunWorkflowGraph(failing, withTail)
  \/ GraphContinue

(***************************************************************************)
(*                     PART 4: THE OUTPUT AND ITS EDGES                    *)
(***************************************************************************)
\* The edges that leave the Output's node; they all lead to one target node.
OEdges == 1..MaxOutEdges

\* A hook either awaits its continuation or returns without calling it.
Hooks == {"next", "halt"}

Resolved == [status |-> "resolved", message |-> "", cause |-> ""]

Rejected(m, c) == [status |-> "rejected", message |-> m, cause |-> c]

Thrown(m) == [status |-> "thrown", message |-> m, cause |-> ""]

\* The guard of Node.write.
WriteThrows(st) ==
  IF st = "corrupted" THEN "Cannot write to corrupted node"
  ELSE IF st = "uninitialized" THEN "Cannot write to uninitialized node"
  ELSE ""

\* An edge whose source is another node than the Output's.
ForeignEdge == 0

\* The edges a caller may hand to Output.queue.
QueueInputs == OEdges \cup {ForeignEdge}

\* The `write` hook of an edge; the foreign edge has the default one.
WriteHook(e) == IF e \in OEdges THEN edgeWriteOp[e] ELSE "next"

RECURSIVE EdgeWrite(_, _)
RECURSIVE NodeWrite(_, _, _, _)
\* Edge.write(ctx) as the depth-th nested call of it: the write hook runs and
\* its continuation calls target.write(this, ctx); whatever fails is wrapped.
\* The call stack holds MaxStack nested calls; one more raises a RangeError.
EdgeWrite(e, depth) ==
  LET r == IF depth > MaxStack
           THEN Thrown("Maximum call stack size exceeded")
           ELSE IF WriteHook(e) = "halt" THEN Resolved
           ELSE NodeWrite(targetState, targetOutgoing, e, depth)
  IN  IF r.status = "resolved" THEN Resolved
      ELSE Rejected("Failed to write to edge", r.message)

\* Node.write(edge, ctx) on a node in state st with `outgoing` hook h: it throws
\* on a node that is corrupted or not initialized; otherwise the hook runs and
\* its continuation awaits edge.write(ctx).
NodeWrite(st, h, e, depth) ==
  IF WriteThrows(st) # "" THEN Thrown(WriteThrows(st))
  ELSE IF h = "halt" THEN Resolved
  ELSE EdgeWrite(e, depth + 1)

\* edge.source.process(edge, ctx): the edge's source is the node, so this is
\* Node.write on the Output's node.
SourceProcess(e) == NodeWrite(sourceState, sourceOutgoing, e, 0)

\* An Output is created empty; the hooks of its node, of the edges and of their
\* targets are those the nodes and edges were constructed with.
OInit ==
  /\ sourceState = "initialized"
  /\ sourceOutgoing \in Hooks
  /\ edgeWriteOp \in [OEdges -> Hooks]
  /\ targetState = "initialized"
  /\ targetOutgoing \in Hooks
  /\ flushed = FALSE
  /\ outEdges = <<>>
  /\ queueError = ""
  /\ flushes = <<>>
  /\ edgeWrites = <<>>
  /\ written = [e \in OEdges |-> 0]
  /\ processes = <<>>
  /\ targetQueue = 0
  /\ outErrors = 0
  /\ outOps = 0

\* One more call, within the bound of the model.
OutputOp ==
  /\ OutputOnly
  /\ outOps < MaxOutputOps
  /\ outOps' = outOps + 1

\* Mutant of SourceIsNode: any edge passes for one of the Output's node.
SourceIsNodeAlways(e) == TRUE

\* edge.source === this.node
SourceIsNode(e) == e \in OEdges

\* Output.queue(edge).
Queue(e) ==
  /\ OutputOp
  /\ IF flushed
     THEN queueError' = "Queue has already been flushed." /\ UNCHANGED outEdges
     ELSE IF e \in Range(outEdges)
     THEN queueError' = "Edge has already been queued." /\ UNCHANGED outEdges
     ELSE IF ~SourceIsNode(e)
     THEN queueError' = "Edge does not belong to this node."
          /\ UNCHANGED outEdges
     ELSE queueError' = "" /\ outEdges' = SetAdd(outEdges, e)
  /\ UNCHANGED <<sourceState, sourceOutgoing, edgeWriteOp, targetState,
                 targetOutgoing, flushed, flushes, edgeWrites, written,
                 outErrors, processes, targetQueue>>

\* Output.remove(edge).
Remove(e) ==
  /\ OutputOp
  /\ IF flushed
     THEN queueError' = "Queue has already been flushed." /\ UNCHANGED outEdges
     ELSE queueError' = "" /\ outEdges' = SetDelete(outEdges, e)
  /\ UNCHANGED <<sourceState, sourceOutgoing, edgeWriteOp, targetState,
                 targetOutgoing, flushed, flushes, edgeWrites, written,
                 outErrors, processes, targetQueue>>

\* The edges of a flush whose Edge.write the source node invokes.
Reached(es) ==
  IF sourceOutgoing = "next" THEN Range(es) ELSE {}

\* The guard of Output.flush.
FlushGuard == flushed

\* Output.flush(ctx) up to its await: the guard, then process is called on the
\* source of every queued edge; a throw of process ends the call at once.
flush ==
  /\ Len(flushes) < MaxFlushes
  /\ LET none == [status |-> "rejected", message |-> "", causes |-> <<>>,
                  wrote |-> {}, failed |-> <<>>]
     IN  IF FlushGuard
         THEN /\ flushes' = Append(flushes,
                   [none EXCEPT !.message = "Queue has already been flushed."])
              /\ UNCHANGED written
         ELSE IF outEdges # <<>> /\ WriteThrows(sourceState) # ""
         THEN /\ flushes' = Append(flushes,
                   [none EXCEPT !.message = WriteThrows(sourceState)])
              /\ UNCHANGED written
         ELSE /\ flushes' = Append(flushes,
                   [none EXCEPT
                      !.status = "pending",
                      !.wrote = Reached(outEdges),
                      !.failed = SelectSeq(outEdges,
                         LAMBDA e : SourceProcess(e).status # "resolved")])
              /\ written' = [e \in OEdges |->
                               IF e \in Reached(outEdges) THEN written[e] + 1
                               ELSE written[e]]
  /\ UNCHANGED <<sourceState, sourceOutgoing, edgeWriteOp, targetState,
                 targetOutgoing, flushed, outEdges, queueError, edgeWrites,
                 outErrors, processes, targetQueue>>

\* output.flush(ctx) called by the run logic.
Flush ==
  /\ OutputOp
  /\ flush

\* Output.flush(ctx) from its await on: the writes have settled; with a rejected
\* one the node dispatches an error event and flush rejects, otherwise the
\* Output is marked flushed.
FlushSettle(i) ==
  /\ OutputOnly
  /\ UNCHANGED outOps
  /\ i \in 1..Len(flushes)
  /\ flushes[i].status = "pending"
  /\ IF flushes[i].failed # <<>>
     THEN /\ flushes' = [flushes EXCEPT
                 ![i].status = "rejected",
                 ![i].message = "One or more edges failed to process.",
                 ![i].causes = [k \in 1..Len(flushes[i].failed) |->
                                  "Failed to write to edge"]]
          /\ outErrors' = outErrors + 1
          /\ UNCHANGED flushed
     ELSE /\ flushes' = [flushes EXCEPT ![i].status = "resolved"]
          /\ flushed' = TRUE
          /\ UNCHANGED outErrors
  /\ UNCHANGED <<sourceState, sourceOutgoing, edgeWriteOp, targetState,
                 targetOutgoing, outEdges, queueError, edgeWrites, written,
                 processes, targetQueue>>

\* edge.write(ctx) called on an edge directly.
Write(e) ==
  /\ OutputOp
  /\ Len(edgeWrites) + Len(processes) < MaxWrites
  /\ edgeWrites' = Append(edgeWrites,
                          [edge |-> e, nth |-> written[e] + 1,
                           result |-> EdgeWrite(e, 1)])
  /\ written' = [written EXCEPT ![e] = @ + 1]
  /\ UNCHANGED <<sourceState, sourceOutgoing, edgeWriteOp, targetState,
                 targetOutgoing, flushed, outEdges, queueError, flushes,
                 outErrors, processes, targetQueue>>

\* Every hook on the way of an edge calls its continuation and both of the
\* edge's nodes are initialized.
Defaults(e) ==
  /\ sourceOutgoing = "next" /\ edgeWriteOp[e] = "next" /\ targetOutgoing = "next"
  /\ sourceState = "initialized" /\ targetState = "initialized"

\* source.process(edge, ctx) called directly on an outgoing edge of the node.
\* Neither Node.write nor Edge.write calls the target's read: nothing is put
\* on the target's queue.
Process(e) ==
  /\ OutputOp
  /\ Len(edgeWrites) + Len(processes) < MaxWrites
  /\ processes' = Append(processes,
                         [edge |-> e, defaults |-> Defaults(e),
                          status |-> SourceProcess(e).status])
  /\ written' = [written EXCEPT
                    ![e] = IF WriteThrows(sourceState) = "" /\ e \in Reached(<<e>>)
                           THEN @ + 1 ELSE @]
  /\ UNCHANGED <<sourceState, sourceOutgoing, edgeWriteOp, targetState,
                 targetOutgoing, flushed, outEdges, queueError, flushes,
                 edgeWrites, targetQueue, outErrors>>

\* Node.destroy() on the Output's node.
DestroySource ==
  /\ OutputOp
  /\ sourceState = "initialized"
  /\ sourceState' = "uninitialized"
  /\ UNCHANGED <<sourceOutgoing, edgeWriteOp, targetState, targetOutgoing,
                 flushed, outEdges, queueError, flushes, edgeWrites, written,
                 outErrors, processes, targetQueue>>

\* Node.destroy() on the target node.
DestroyTarget ==
  /\ OutputOp
  /\ targetState = "initialized"
  /\ targetState' = "uninitialized"
  /\ UNCHANGED <<sourceState, sourceOutgoing, edgeWriteOp, targetOutgoing,
                 flushed, outEdges, queueError, flushes, edgeWrites, written,
                 outErrors, processes, targetQueue>>

NoNodeRun == [pc |-> "running", flush |-> 0]

\* Node.runFor has created the Output and its run logic is running.
RInit ==
  /\ OInit
  /\ autoFlush = TRUE
  /\ nodeRun = NoNodeRun

\* A call the run logic makes on its Output.
ByRunLogic == nodeRun.pc = "running"

\* The run logic sets output.autoFlush = false.
DisableAutoFlush ==
  /\ RunOnly
  /\ nodeRun.pc = "running" /\ autoFlush
  /\ autoFlush' = FALSE
  /\ UNCHANGED <<ovars, nodeRun>>

\* The test of Node.runFor after the run logic:
\* !output.flushed && output.autoFlush && output.size.
AutoFlushDue == ~flushed /\ autoFlush /\ Len(outEdges) > 0

\* The run logic returns: Node.runFor flushes the Output itself when the test
\* says so, and otherwise resolves.
RunReturns ==
  /\ RunOnly
  /\ nodeRun.pc = "running"
  /\ autoFlush' = autoFlush
  /\ IF AutoFlushDue
     THEN /\ flush
          /\ nodeRun' = [nodeRun EXCEPT !.pc = "flushing",
                                        !.flush = Len(flushes')]
          /\ outOps' = outOps
     ELSE /\ nodeRun' = [nodeRun EXCEPT !.pc = "resolved"]
          /\ UNCHANGED ovars

\* The flush Node.runFor awaits has settled: runFor resolves, or wraps the
\* error as "Failed to flush output", dispatches it and rejects.
RunForSettles ==
  /\ RunOnly
  /\ nodeRun.pc = "flushing"
  /\ flushes[nodeRun.flush].status # "pending"
  /\ nodeRun' = [nodeRun EXCEPT !.pc = flushes[nodeRun.flush].status]
  /\ outErrors' = IF flushes[nodeRun.flush].status = "rejected"
                  THEN outErrors + 2 ELSE outErrors
  /\ autoFlush' = autoFlush
  /\ UNCHANGED <<sourceState, sourceOutgoing, edgeWriteOp, targetState,
                 targetOutgoing, flushed, outEdges, queueError, flushes,
                 edgeWrites, written, processes, targetQueue, outOps>>

\* Node.runFor with its Output: what the run logic does with the Output, its
\* return, and the flush of runFor itself.
RNext ==
  \/ \E e \in QueueInputs : ByRunLogic /\ Queue(e)
  \/ \E e \in OEdges : ByRunLogic /\ Remove(e)
  \/ ByRunLogic /\ Flush
  \/ \E i \in 1..MaxFlushes : FlushSettle(i)
  \/ ByRunLogic /\ DestroyTarget
  \/ DisableAutoFlush
  \/ RunReturns
  \/ RunForSettles

ONext ==
  \/ \E e \in QueueInputs : Queue(e)
  \/ \E e \in OEdges : Remove(e)
  \/ Flush
  \/ \E i \in 1..MaxFlushes : FlushSettle(i)
  \/ \E e \in OEdges : Write(e)
  \/ \E e \in OEdges : Process(e)
  \/ DestroySource
  \/ DestroyTarget

(***************************************************************************)
(*                     PART 9: THE CONTINUATION OF NODE.RUNFOR             *)
(***************************************************************************)
\* The opCtx of a Node.runFor invocation ({run: true, ran: false}), how often
\* the run logic has been started, the invocations of the continuation the
\* runFor hook has made ("running": awaiting the run logic; "done"; "failed":
\* the run logic threw; "refused": "Node has already been run"), and whether
\* the hook is still running.
NewRunCall == [ran |-> FALSE, logic |-> 0, conts |-> <<>>, pc |-> "hook"]

XInit == runCalls = <<>>

\* node.runFor(ctx) on an initialized node: the runFor hook starts.
RunForCall ==
  /\ InvocationOnly
  /\ Len(runCalls) < MaxRunCalls
  /\ runCalls' = Append(runCalls, NewRunCall)

\* The test of the continuation: if (opCtx.ran && opCtx.run), with run left
\* at its default.
AlreadyRan(r) == runCalls[r].ran

\* The runFor hook of invocation r calls its continuation: it throws when the
\* invocation is marked as run, and otherwise creates an Output and starts
\* the run logic.
ContinuationCall(r) ==
  /\ InvocationOnly
  /\ r \in 1..Len(runCalls)
  /\ runCalls[r].pc = "hook"
  /\ Len(runCalls[r].conts) < MaxContinuations
  /\ runCalls' =
       IF AlreadyRan(r)
       THEN [runCalls EXCEPT ![r].conts = Append(@, "refused")]
       ELSE [runCalls EXCEPT ![r].conts = Append(@, "running"),
                             ![r].logic = @ + 1]

\* The run logic started by the i-th continuation call of invocation r
\* settles: when it returned, the continuation sets opCtx.ran = true.
RunLogicSettles(r, i, ok) ==
  /\ InvocationOnly
  /\ r \in 1..Len(runCalls)
  /\ i \in 1..Len(runCalls[r].conts)
  /\ runCalls[r].conts[i] = "running"
  /\ runCalls' =
       IF ok
       THEN [runCalls EXCEPT ![r].conts[i] = "done", ![r].ran = TRUE]
       ELSE [runCalls EXCEPT ![r].conts[i] = "failed"]

\* The runFor hook of invocation r returns: runFor resolves, or rejects when
\* a continuation call of the hook has thrown.
HookReturns(r) ==
  /\ InvocationOnly
  /\ r \in 1..Len(runCalls)
  /\ runCalls[r].pc = "hook"
  /\ runCalls' =
       [runCalls EXCEPT ![r].pc =
          IF \E i \in 1..Len(runCalls[r].conts) :
               runCalls[r].conts[i] \in {"failed", "refused"}
          THEN "rejected" ELSE "resolved"]

XNext ==
  \/ RunForCall
  \/ \E r \in 1..MaxRunCalls : ContinuationCall(r)
  \/ \E r \in 1..MaxRunCalls, i \in 1..MaxContinuations, ok \in BOOLEAN :
       RunLogicSettles(r, i, ok)
  \/ \E r \in 1..MaxRunCalls : HookReturns(r)

(***************************************************************************)
(*                     PART 5: PIPELINE.PUSH                               *)
(***************************************************************************)
\* What the push hook does for one item: "next" calls its continuation and
\* returns; "async" awaits before it calls its continuation; "halt" returns
\* without calling it (or clears ctx.push); "throw" throws before calling it;
\* "nextThrow" calls it and then throws; "twice" calls it twice.
PushHooks == {"next", "async", "halt", "throw", "nextThrow", "twice"}

\* The i-th workflow given to push.
PushTask(i) == Task("inc", 100 + i)

\* How often the hook calls its continuation before push reaches its await.
Continuations(h) ==
  IF h = "twice" THEN 2 ELSE IF h \in {"next", "nextThrow"} THEN 1 ELSE 0

\* The state of the promise of this.op("push", ctx, ...) when push awaits.
HookOutcome(h) ==
  IF h = "async" THEN "pending"
  ELSE IF h \in {"throw", "nextThrow"} THEN "rejected"
  ELSE "resolved"

\* workflows.map(...) of push from item i on: each call of the hook's
\* continuation executes this.#workflows.push(workflow).
RECURSIVE PushMap(_, _, _)
PushMap(args, i, ws) ==
  IF i > Len(args) THEN ws
  ELSE PushMap(args, i + 1,
               ws \o [k \in 1..Continuations(args[i]) |-> PushTask(i)])

\* Mutant of NoWorkflows: the guard never trips.
NoWorkflowsNever(args) == FALSE

\* The guard of push: !workflows.length.
NoWorkflows(args) == Len(args) = 0

\* Mutant of PushMessage: the message does not tell all from some.
PushMessageSome(nRejected, nResults) == "Some pushes failed"

\* The message of the aggregate error of push.
PushMessage(nRejected, nResults) ==
  IF nRejected = nResults THEN "All pushes failed" ELSE "Some pushes failed"

NoPush ==
  [args |-> <<>>, before |-> <<>>, state |-> <<>>, status |-> "none",
   message |-> "", causes |-> 0]

\* A pipeline constructed with no workflow or with one; push not yet called.
HInit ==
  /\ workflows \in {<<>>, <<Task("inc", 1)>>}
  /\ push = NoPush

\* pipeline.push(...workflows) up to its await, the push hook doing args[i]
\* for the i-th workflow.
PushCall(args) ==
  /\ PushOnly
  /\ push.status = "none"
  /\ LET call0 == [args |-> args, before |-> workflows,
                   state |-> [i \in 1..Len(args) |-> HookOutcome(args[i])],
                   status |-> "pending", message |-> "", causes |-> 0]
     IN  IF NoWorkflows(args)
         THEN /\ push' = [call0 EXCEPT !.status = "rejected",
                                       !.message = "No workflows provided"]
              /\ UNCHANGED workflows
         ELSE /\ push' = call0
              /\ workflows' = PushMap(args, 1, workflows)

\* A push hook that awaited calls its continuation: the workflow is appended.
HookContinue(i) ==
  /\ PushOnly
  /\ i \in 1..Len(push.args)
  /\ push.state[i] = "pending"
  /\ workflows' = Append(workflows, PushTask(i))
  /\ push' = [push EXCEPT !.state[i] = "resolved"]

\* push from its await on: Promise.allSettled has resolved.
PushSettle ==
  /\ PushOnly
  /\ push.status = "pending"
  /\ \A i \in 1..Len(push.args) : push.state[i] # "pending"
  /\ LET rejected0 == {i \in 1..Len(push.args) : push.state[i] = "rejected"}
     IN  push' = [push EXCEPT
           !.status = IF rejected0 = {} THEN "resolved" ELSE "rejected",
           !.message = IF rejected0 = {} THEN ""
                       ELSE PushMessage(Cardinality(rejected0), Len(push.args)),
           !.causes = Cardinality(rejected0)]
  /\ UNCHANGED workflows

HNext ==
  \/ \E args \in SeqsUpTo(PushHooks, MaxPushItems) : PushCall(args)
  \/ \E i \in 1..MaxPushItems : HookContinue(i)
  \/ PushSettle

(***************************************************************************)
(*                     PART 6: TWO CALLERS OF ONE PIPELINE                 *)
(***************************************************************************)
\* A caller that has not called the pipeline yet.
IdleCaller ==
  [snap |-> <<>>, call |-> [mode |-> "none", tail |-> FALSE], stack |-> <<>>,
   exc |-> <<>>, counter |-> 0, trace |-> <<>>, tailCalls |-> 0,
   tailSeen |-> 0, status |-> "idle"]

\* The caller that is running: its call, its context and its call chain.
ActiveCaller ==
  [snap |-> snap, call |-> call, stack |-> stack, exc |-> exc,
   counter |-> counter, trace |-> trace, tailCalls |-> tailCalls,
   tailSeen |-> tailSeen, status |-> status]

\* The event loop turns to the other caller; the pipeline (its workflow list
\* and the cursors of its runs) is the same for both.
Switch ==
  /\ CallerOnly
  /\ parked' = ActiveCaller
  /\ snap' = parked.snap
  /\ call' = parked.call
  /\ stack' = parked.stack
  /\ exc' = parked.exc
  /\ counter' = parked.counter
  /\ trace' = parked.trace
  /\ tailCalls' = parked.tailCalls
  /\ tailSeen' = parked.tailSeen
  /\ status' = parked.status

\* Two callers run a pipeline of tasks that await next, while tasks are pushed.
CNext ==
  \/ Push("inc")
  \/ \E withTail \in BOOLEAN : RunFor(withTail)
  \/ NextStep
  \/ TaskForward
  \/ TaskBackward
  \/ RunForReturn
  \/ Settle
  \/ Switch

(***************************************************************************)
(*                     PART 7: NODE OPERATIONS AND LIFECYCLE               *)
(***************************************************************************)
OpNames == {"addEdge", "removeEdge", "runFor", "read", "write", "destroy"}

NodeEdgeIds == 1..MaxEdges

\* The operations that are async functions; read and write are not.
AsyncOps == {"addEdge", "removeEdge", "runFor", "destroy"}

CorruptedMessage ==
  [addEdge |-> "Cannot add edge to corrupted node",
   removeEdge |-> "Cannot remove edge from corrupted node",
   runFor |-> "Cannot run corrupted node",
   read |-> "Cannot read from corrupted node",
   write |-> "Cannot write to corrupted node",
   destroy |-> "Node is corrupted"]

UninitializedMessage ==
  [addEdge |-> "Cannot add edge to uninitialized node",
   removeEdge |-> "Cannot remove edge from uninitialized node",
   runFor |-> "Cannot run uninitialized node",
   read |-> "Cannot read from uninitialized node",
   write |-> "Cannot write to uninitialized node",
   destroy |-> "Node is not initialized"]

\* The message of the AggregateError an async operation's catch throws.
FailedMessage ==
  [addEdge |-> "Failed to add edge to node",
   removeEdge |-> "Failed to remove edge from node",
   runFor |-> "Failed to run node for context",
   destroy |-> "Failed to destroy node"]

\* Mutant of GuardMessage: the corrupted flag is not looked at.
GuardMessageInitializedOnly(op) ==
  IF ~initialized THEN UninitializedMessage[op] ELSE ""

\* The guard every operation starts with: what it throws, "" when it passes.
GuardMessage(op) ==
  IF corrupted THEN CorruptedMessage[op]
  ELSE IF ~initialized THEN UninitializedMessage[op]
  ELSE ""

NoCall ==
  [op |-> "none", outcome |-> "none", message |-> "", cause |-> "",
   hookRan |-> FALSE, changed |-> FALSE, usable |-> TRUE,
   wasCorrupted |-> FALSE, afterDestroy |-> FALSE, afterTeardown |-> FALSE,
   afterRunFailure |-> FALSE, input |-> "none"]

\* The record of a call of op, made in the current state.
Called(op, outcome, message, cause, hookRan, changed) ==
  [op |-> op, outcome |-> outcome, message |-> message, cause |-> cause,
   hookRan |-> hookRan, changed |-> changed,
   usable |-> initialized /\ ~corrupted,
   wasCorrupted |-> corrupted,
   afterDestroy |-> history.destroyed,
   afterTeardown |-> history.teardown,
   afterRunFailure |-> history.runFailed,
   input |-> "none"]

\* How a call whose guard throws ends: the catch of an async operation rejects
\* with an AggregateError around the guard's error; read and write have no
\* try and are not async, so the guard's error is thrown to the caller.
Refused(op) ==
  IF op \in AsyncOps
  THEN Called(op, "rejected", FailedMessage[op], GuardMessage(op), FALSE, FALSE)
  ELSE Called(op, "thrown", GuardMessage(op), "", FALSE, FALSE)

NoHistory == [destroyed |-> FALSE, teardown |-> FALSE, runFailed |-> FALSE]

\* A node under construction or constructed, with the hooks it was given.
KInit ==
  /\ NInit
  /\ nodeEdgeSet = {}
  /\ opHooks \in [OpNames -> Hooks]
  /\ lastCall = NoCall
  /\ history = NoHistory
  /\ nodeOps = 0

\* A call of an operation of the node.
NodeCall ==
  /\ NodeFrame
  /\ UNCHANGED lvars
  /\ nodeOps < MaxNodeOps
  /\ nodeOps' = nodeOps + 1
  /\ opHooks' = opHooks

\* Node.addEdge(edge).
CallAddEdge(e) ==
  /\ NodeCall
  /\ IF GuardMessage("addEdge") # ""
     THEN /\ lastCall' = Refused("addEdge")
          /\ nodeEdgeSet' = nodeEdgeSet
          /\ errorEvents' = errorEvents + 1
     ELSE /\ nodeEdgeSet' = IF opHooks["addEdge"] = "next"
                            THEN nodeEdgeSet \cup {e} ELSE nodeEdgeSet
          /\ lastCall' = Called("addEdge", "resolved", "", "", TRUE,
                                nodeEdgeSet' # nodeEdgeSet)
          /\ errorEvents' = errorEvents
  /\ UNCHANGED <<initialized, corrupted, initPending, looping, concurrency,
                 queue, incoming, arrived, accepted, batch, running, rejected,
                 ran, settled, readError, history>>

\* Node.removeEdge(edge).
CallRemoveEdge(e) ==
  /\ NodeCall
  /\ IF GuardMessage("removeEdge") # ""
     THEN /\ lastCall' = Refused("removeEdge")
          /\ nodeEdgeSet' = nodeEdgeSet
          /\ errorEvents' = errorEvents + 1
     ELSE /\ nodeEdgeSet' = IF opHooks["removeEdge"] = "next"
                            THEN nodeEdgeSet \ {e} ELSE nodeEdgeSet
          /\ lastCall' = Called("removeEdge", "resolved", "", "", TRUE,
                                nodeEdgeSet' # nodeEdgeSet)
          /\ errorEvents' = errorEvents
  /\ UNCHANGED <<initialized, corrupted, initPending, looping, concurrency,
                 queue, incoming, arrived, accepted, batch, running, rejected,
                 ran, settled, readError, history>>

\* What happens inside a run: the run logic returns and the flush succeeds, the
\* run logic throws, or the auto-flush of the Output rejects.
RunOutcomes == {"ok", "runFails", "flushFails"}

\* Mutant of CorruptedAfterRun: the catch of runFor marks the node corrupted, as
\* the catch of #init and of destroy do.
CorruptedAfterRunFailure(failed) == corrupted \/ failed

\* Node.#corrupted after a run: the catch of runFor does not assign it.
CorruptedAfterRun(failed) == corrupted

\* Node.runFor(ctx) called directly; `inside` is what happens inside the run.
CallRunFor(inside) ==
  /\ NodeCall
  /\ LET failed == /\ GuardMessage("runFor") = ""
                   /\ opHooks["runFor"] = "next"
                   /\ inside # "ok"
     IN  /\ IF GuardMessage("runFor") # ""
            THEN /\ lastCall' = [Refused("runFor") EXCEPT !.input = inside]
                 /\ errorEvents' = errorEvents + 1
            ELSE IF failed
            THEN /\ lastCall' =
                      [Called("runFor", "rejected", FailedMessage["runFor"],
                              IF inside = "flushFails"
                              THEN "Failed to flush output" ELSE "run failed",
                              TRUE, FALSE) EXCEPT !.input = inside]
                 /\ errorEvents' = errorEvents
                                     + (IF inside = "flushFails" THEN 2 ELSE 1)
            ELSE /\ lastCall' = [Called("runFor", "resolved", "", "", TRUE,
                                        FALSE) EXCEPT !.input = inside]
                 /\ errorEvents' = errorEvents
         /\ corrupted' = CorruptedAfterRun(failed)
         /\ history' = [history EXCEPT !.runFailed = @ \/ failed]
  /\ UNCHANGED <<initialized, initPending, looping, concurrency, queue,
                 incoming, arrived, accepted, batch, running, rejected, ran,
                 settled, readError, nodeEdgeSet>>

\* Node.read(null, ctx).
CallRead ==
  /\ NodeCall
  /\ arrived < MaxCtx
  /\ arrived' = arrived + 1
  /\ IF GuardMessage("read") # ""
     THEN /\ lastCall' = Refused("read")
          /\ readError' = GuardMessage("read")
          /\ UNCHANGED <<accepted, queue, looping, batch, running, rejected,
                         ran, settled, errorEvents>>
     ELSE IF opHooks["read"] = "next"
     THEN /\ lastCall' = Called("read", "resolved", "", "", TRUE, TRUE)
          /\ readError' = ""
          /\ Enqueue(arrived + 1)
     ELSE /\ lastCall' = Called("read", "resolved", "", "", TRUE, FALSE)
          /\ readError' = ""
          /\ UNCHANGED <<accepted, queue, looping, batch, running, rejected,
                         ran, settled, errorEvents>>
  /\ UNCHANGED <<initialized, corrupted, initPending, concurrency, incoming,
                 history, nodeEdgeSet>>

\* Node.write(edge, ctx); `ok` is whether the edge's write resolves.
CallWrite(e, ok) ==
  /\ NodeCall
  /\ lastCall' =
       IF GuardMessage("write") # "" THEN Refused("write")
       ELSE IF opHooks["write"] = "next" /\ ~ok
       THEN Called("write", "rejected", "Failed to write to edge", "", TRUE,
                   FALSE)
       ELSE Called("write", "resolved", "", "", TRUE, FALSE)
  /\ UNCHANGED <<nvars, history, nodeEdgeSet>>

\* Mutant of Teardown: the continuation of destroy leaves the flag as it is.
TeardownSkipped(h) == initialized

\* Node.#initialized after the destroy hook h has run: the continuation of
\* destroy clears it, a hook that does not call the continuation leaves it.
Teardown(h) == IF h = "next" THEN FALSE ELSE initialized

\* Node.destroy().
CallDestroy ==
  /\ NodeCall
  /\ IF GuardMessage("destroy") # ""
     THEN /\ lastCall' = Refused("destroy")
          /\ initialized' = FALSE
          /\ corrupted' = TRUE
          /\ history' = history
     ELSE /\ lastCall' = Called("destroy", "resolved", "", "", TRUE, FALSE)
          /\ initialized' = Teardown(opHooks["destroy"])
          /\ corrupted' = corrupted
          /\ history' = [history EXCEPT
                           !.destroyed = TRUE,
                           !.teardown = @ \/ opHooks["destroy"] = "next"]
  /\ UNCHANGED <<initPending, looping, concurrency, queue, incoming, arrived,
                 accepted, batch, running, rejected, ran, settled, readError,
                 errorEvents, nodeEdgeSet>>

\* A node is constructed and operations are called on it in any state.
KNext ==
  \/ \E e \in NodeEdgeIds : CallAddEdge(e)
  \/ \E e \in NodeEdgeIds : CallRemoveEdge(e)
  \/ \E inside \in RunOutcomes : CallRunFor(inside)
  \/ CallRead
  \/ \E e \in NodeEdgeIds, ok \in BOOLEAN : CallWrite(e, ok)
  \/ CallDestroy
  \/ InitDone
  \/ InitFail
  \/ InitSkip
  \/ \E c \in Ctxs, ok \in BOOLEAN : RunSettle(c, ok)
  \/ LoopResume

(***************************************************************************)
(*                     PART 8: SEVERAL GRAPHS                              *)
(***************************************************************************)
Graphs == 1..MaxGraphs

NoGraphOp == [op |-> "none", graph |-> 0, node |-> 0]

\* Graphs created empty, and nodes that are in no graph.
MInit ==
  /\ graphNodes = [g \in Graphs |-> {}]
  /\ graphOf = [n \in Nodes |-> 0]
  /\ lastGraphOp = NoGraphOp

\* graph.addNode(node) on graph g with the default hook: the back-reference is
\* set and the node is added, whatever graph the node was in.
AddNodeTo(g, n) ==
  /\ GraphsOnly
  /\ graphOf' = [graphOf EXCEPT ![n] = g]
  /\ graphNodes' = [graphNodes EXCEPT ![g] = @ \cup {n}]
  /\ lastGraphOp' = [op |-> "addNode", graph |-> g, node |-> n]

\* graph.removeNode(node) on graph g with the default hook, for a node without
\* edges: the back-reference is cleared and the node is deleted from g's node
\* set, whether or not g held it.
RemoveNodeFrom(g, n) ==
  /\ GraphsOnly
  /\ graphOf' = [graphOf EXCEPT ![n] = 0]
  /\ graphNodes' = [graphNodes EXCEPT ![g] = @ \ {n}]
  /\ lastGraphOp' = [op |-> "removeNode", graph |-> g, node |-> n]

MNext ==
  \/ \E g \in Graphs, n \in Nodes : AddNodeTo(g, n)
  \/ \E g \in Graphs, n \in Nodes : RemoveNodeFrom(g, n)

(***************************************************************************)
(*                     SPECIFICATIONS                                      *)
(***************************************************************************)
\* The part of the state a specification does not use stays as constructed.
PIdle ==
  /\ workflows = <<>> /\ snap = <<>>
  /\ call = [mode |-> "none", tail |-> FALSE]
  /\ runs = <<>> /\ stack = <<>> /\ exc = <<>> /\ counter = 0 /\ trace = <<>>
  /\ tailCalls = 0 /\ tailSeen = 0 /\ status = "idle"

NIdle ==
  /\ initPending = FALSE /\ initialized = TRUE /\ corrupted = FALSE
  /\ looping = FALSE /\ concurrency = Undefined /\ queue = <<>>
  /\ incoming = {} /\ arrived = 0 /\ accepted = {} /\ batch = <<>>
  /\ running = {} /\ rejected = {} /\ ran = [c \in Ctxs |-> 0]
  /\ settled = {} /\ readError = "" /\ errorEvents = 0
  /\ nodeEvents = <<"nodeInitialized">>
  /\ constructed = [done |-> TRUE, initialized |-> TRUE, corrupted |-> FALSE]

GIdle ==
  /\ nodeState = [n \in Nodes |-> "initialized"]
  /\ nodeEdges = [n \in Nodes |-> <<>>]
  /\ nodeGraph = [n \in Nodes |-> FALSE]
  /\ nodes = <<>> /\ edges = <<>> /\ edgeEnds = <<>>
  /\ delivered = [n \in Nodes |-> 0]
  /\ graphRuns = 0 /\ graphRun = NoRun /\ graphOps = 0 /\ lastOp = NoOp

OIdle ==
  /\ sourceState = "initialized" /\ sourceOutgoing = "next"
  /\ edgeWriteOp = [e \in OEdges |-> "next"]
  /\ targetState = "initialized" /\ targetOutgoing = "next"
  /\ flushed = FALSE /\ outEdges = <<>> /\ queueError = "" /\ flushes = <<>>
  /\ edgeWrites = <<>> /\ written = [e \in OEdges |-> 0] /\ outErrors = 0
  /\ processes = <<>> /\ targetQueue = 0 /\ outOps = 0

HIdle == push = NoPush

\* The part of a pipeline's state that Pipeline.push does not use.
PRest ==
  /\ snap = <<>>
  /\ call = [mode |-> "none", tail |-> FALSE]
  /\ runs = <<>> /\ stack = <<>> /\ exc = <<>> /\ counter = 0 /\ trace = <<>>
  /\ tailCalls = 0 /\ tailSeen = 0 /\ status = "idle"

CIdle == parked = IdleCaller

WIdle == graphCall = NoGraphCall

MIdle ==
  /\ graphNodes = [g \in Graphs |-> {}]
  /\ graphOf = [n \in Nodes |-> 0]
  /\ lastGraphOp = NoGraphOp

RIdle ==
  /\ autoFlush = TRUE
  /\ nodeRun = NoNodeRun

DIdle == copy = NoCopy

XIdle == runCalls = <<>>

\* Parts 8 and later are not in use.
ExtIdle == MIdle /\ RIdle /\ DIdle /\ XIdle

KIdle ==
  /\ nodeEdgeSet = {} /\ opHooks = [op \in OpNames |-> "next"]
  /\ lastCall = NoCall /\ history = NoHistory /\ nodeOps = 0

\* The caller's tail resolves and no error event has been dispatched.
EIdle == tailFails = FALSE /\ pipelineErrors = <<>>

\* Parts 1 to 7 are not in use.
CoreIdle ==
  /\ PIdle /\ NIdle /\ GIdle /\ OIdle /\ HIdle
  /\ CIdle /\ EIdle /\ WIdle /\ KIdle

InitPipeline ==
  /\ PInit /\ NIdle /\ GIdle /\ OIdle /\ HIdle
  /\ CIdle /\ EIdle /\ WIdle /\ KIdle
  /\ ExtIdle

InitNode ==
  /\ NInit /\ PIdle /\ GIdle /\ OIdle /\ HIdle
  /\ CIdle /\ EIdle /\ WIdle /\ KIdle
  /\ ExtIdle

InitNodeLive ==
  /\ NLiveInit /\ PIdle /\ GIdle /\ OIdle /\ HIdle
  /\ CIdle /\ EIdle /\ WIdle /\ KIdle
  /\ ExtIdle

InitGraph ==
  /\ GInit /\ PIdle /\ NIdle /\ OIdle /\ HIdle
  /\ CIdle /\ EIdle /\ WIdle /\ KIdle
  /\ ExtIdle

InitOutput ==
  /\ OInit /\ PIdle /\ NIdle /\ GIdle /\ HIdle
  /\ CIdle /\ EIdle /\ WIdle /\ KIdle
  /\ ExtIdle

InitPush ==
  /\ HInit /\ PRest /\ NIdle /\ GIdle /\ OIdle
  /\ CIdle /\ EIdle /\ WIdle /\ KIdle
  /\ ExtIdle

\* A pipeline of tasks that await next, and two callers that have not called.
InitCallers ==
  /\ PInit /\ NIdle /\ GIdle /\ OIdle /\ HIdle /\ CIdle /\ EIdle /\ WIdle
  /\ KIdle /\ ExtIdle
  /\ \A i \in 1..Len(Flatten(workflows)) : Flatten(workflows)[i].kind = "inc"

InitPipelineRepeat ==
  /\ PRepeatInit /\ NIdle /\ GIdle /\ OIdle /\ HIdle
  /\ CIdle /\ EIdle /\ WIdle /\ KIdle
  /\ ExtIdle

SpecPipelineRepeat == InitPipelineRepeat /\ [][PRepeatNext]_vars

SpecPipeline == InitPipeline /\ [][PNext]_vars

SpecNode == InitNode /\ [][NNext]_vars

\* A node with any concurrency option that stays initialized.
InitNodeAnyLimit ==
  /\ NAnyLimitInit /\ PIdle /\ GIdle /\ OIdle /\ HIdle
  /\ CIdle /\ EIdle /\ WIdle /\ KIdle
  /\ MIdle /\ RIdle /\ DIdle /\ XIdle

SpecNodeAnyLimit == InitNodeAnyLimit /\ [][NLiveNext]_vars

SpecGraph == InitGraph /\ [][GNext]_vars

SpecGraphRun == InitGraph /\ [][GRunNext]_vars

SpecGraphWorkflow == InitGraph /\ [][GWorkflowNext]_vars

SpecOutput == InitOutput /\ [][ONext]_vars

SpecPush == InitPush /\ [][HNext]_vars

\* A pipeline whose tasks and whose caller's tail may fail.
InitFailures ==
  /\ PInit /\ NIdle /\ GIdle /\ OIdle /\ HIdle /\ CIdle /\ WIdle /\ KIdle
  /\ ExtIdle
  /\ tailFails \in BOOLEAN
  /\ pipelineErrors = <<>>

SpecFailures == InitFailures /\ [][PNext]_vars

InitNodeOps ==
  /\ KInit /\ PIdle /\ GIdle /\ OIdle /\ HIdle
  /\ CIdle /\ EIdle /\ WIdle
  /\ ExtIdle

SpecNodeOps == InitNodeOps /\ [][KNext]_vars

InitGraphs == MInit /\ RIdle /\ DIdle /\ XIdle /\ CoreIdle

SpecGraphs == InitGraphs /\ [][MNext]_vars

\* One run of a node with its Output.
InitRun ==
  /\ RInit /\ PIdle /\ NIdle /\ GIdle /\ HIdle
  /\ CIdle /\ EIdle /\ WIdle /\ KIdle
  /\ MIdle /\ DIdle /\ XIdle

\* An initialized node whose runFor hook calls its continuation as it likes.
InitInvocations == XInit /\ MIdle /\ RIdle /\ DIdle /\ CoreIdle

SpecInvocations == InitInvocations /\ [][XNext]_vars

SpecGraphDuplicate == InitGraph /\ [][DNext]_vars

SpecRun == InitRun /\ [][RNext]_vars

SpecCallers == InitCallers /\ [][CNext]_vars

\* No run hangs, no incoming hook hangs, and the loop is resumed when its
\* batch has settled.
SpecNodeLive ==
  /\ InitNodeLive /\ [][NLiveNext]_vars
  /\ WF_vars(\E c \in Ctxs, ok \in BOOLEAN : RunSettle(c, ok))
  /\ WF_vars(\E c \in Ctxs : IncomingNext(c))
  /\ WF_vars(LoopResume)

(***************************************************************************)
(*                     PROPERTIES OF PART 1                                *)
(***************************************************************************)
IsPrefix(s, t) == Len(s) <= Len(t) /\ SubSeq(t, 1, Len(s)) = s

Reverse(s) == [i \in 1..Len(s) |-> s[Len(s) + 1 - i]]

Done == status \in {"resolved", "rejected"}

\* The tasks the top-level call covers, in list order.
SnapTasks == Flatten(snap)

AllInc == \A i \in 1..Len(SnapTasks) : SnapTasks[i].kind = "inc"

Fwds(ts) == [i \in 1..Len(ts) |-> [ev |-> "fwd", id |-> ts[i].id]]

Bwds(ts) == Reverse([i \in 1..Len(ts) |-> [ev |-> "bwd", id |-> ts[i].id]])

\* C1: a pipeline of n >= 1 tasks that each increment the counter before and
\* after awaiting next, run with a tail from counter 0, ends resolved with the
\* counter at 2n; the tail is invoked exactly once and sees the counter at n.
C1_CounterAndTail ==
  (call.mode = "pipeline" /\ call.tail /\ Len(SnapTasks) >= 1 /\ AllInc) =>
     /\ tailCalls <= 1
     /\ Done => /\ status = "resolved"
                /\ counter = 2 * Len(SnapTasks)
                /\ tailCalls = 1
                /\ tailSeen = Len(SnapTasks)

C1_Witness ==
  /\ status = "resolved" /\ call.mode = "pipeline" /\ call.tail
  /\ Len(SnapTasks) >= 2 /\ AllInc
  /\ counter = 4 /\ tailSeen = 2

\* C2: in a run (of one task or of a pipeline) whose tasks all await next once,
\* the forward parts run in list order, then the tail, then the backward parts
\* in reverse list order.
ExpectedOrder ==
  Fwds(SnapTasks)
  \o (IF call.tail THEN <<[ev |-> "tail", id |-> 0]>> ELSE <<>>)
  \o Bwds(SnapTasks)

C2_ForwardThenTailThenLifo ==
  (call.mode # "none" /\ AllInc) =>
     /\ IsPrefix(trace, ExpectedOrder)
     /\ Done => trace = ExpectedOrder

C2_Witness ==
  /\ Done /\ call.mode = "pipeline" /\ call.tail /\ AllInc
  /\ Len(SnapTasks) >= 2
  /\ \E i \in 1..Len(snap) : isPipeline(snap[i]) /\ snap[i].workflows # <<>>
  /\ Len(trace) = 2 * Len(SnapTasks) + 1

\* The task at position h of the list has returned without calling next.
HaltedAt(h) ==
  /\ h \in 1..Len(SnapTasks)
  /\ SnapTasks[h].kind = "halt"
  /\ [ev |-> "fwd", id |-> SnapTasks[h].id] \in Range(trace)

ExpectedHalt(h) ==
  Fwds(SubSeq(SnapTasks, 1, h)) \o Bwds(SubSeq(SnapTasks, 1, h - 1))

\* C3: when a task of a pipeline returns without calling next, no workflow after
\* it is started and the tail is not invoked, the backward parts of the tasks
\* before it still run, and runFor resolves.
C3_NoNextHalts ==
  \A h \in 1..Len(SnapTasks) :
    (call.mode = "pipeline" /\ HaltedAt(h)) =>
       /\ IsPrefix(trace, ExpectedHalt(h))
       /\ tailCalls = 0
       /\ status # "rejected"
       /\ status = "resolved" => trace = ExpectedHalt(h)

C3_Witness ==
  /\ status = "resolved" /\ call.mode = "pipeline" /\ call.tail
  /\ Len(SnapTasks) = 3 /\ HaltedAt(2)
  /\ [ev |-> "bwd", id |-> SnapTasks[1].id] \in Range(trace)

\* What the trace of a caller is when its run covers exactly the snapshot taken
\* at its call, in list order.
SnapshotOrder(c) ==
  Fwds(Flatten(c.snap))
  \o (IF c.call.tail THEN <<[ev |-> "tail", id |-> 0]>> ELSE <<>>)
  \o Bwds(Flatten(c.snap))

RunsItsSnapshot(c) ==
  c.call.mode = "pipeline" =>
     /\ IsPrefix(c.trace, SnapshotOrder(c))
     /\ c.status = "resolved" => c.trace = SnapshotOrder(c)

\* C15: a run of pipeline.runFor executes exactly the workflows that were in the
\* list when it was called, in list order: a workflow pushed while it runs is
\* not executed by it, and of two runs in progress at once each walks its own
\* snapshot, whatever the other one has consumed.
C15_RunCoversItsSnapshot ==
  /\ RunsItsSnapshot(ActiveCaller)
  /\ RunsItsSnapshot(parked)

C15_Witness ==
  /\ status = "resolved" /\ parked.status = "running"
  /\ call.mode = "pipeline" /\ parked.call.mode = "pipeline"
  /\ Len(snap) = 2 /\ Len(parked.snap) = 1 /\ Len(workflows) = 3
  /\ Len(parked.trace) = 1
  /\ trace = SnapshotOrder(ActiveCaller)

\* The task at position h of the list has thrown.
FailedAt(h) ==
  /\ h \in 1..Len(SnapTasks)
  /\ SnapTasks[h].kind = "throw"
  /\ [ev |-> "fwd", id |-> SnapTasks[h].id] \in Range(trace)

\* The tail has been invoked and has rejected.
TailFailed == tailFails /\ tailCalls >= 1

\* The top-level runFor does not resolve; once settled it has rejected with
\* "Pipeline failed" around the failure, and the same error has been
\* dispatched as an error event on the pipeline.
PipelineFailedWith(e) ==
  /\ status # "resolved"
  /\ Done => /\ status = "rejected"
             /\ Len(exc) >= 2
             /\ Head(exc) = "Pipeline failed"
             /\ Last(exc) = e
             /\ [run |-> 1, error |-> exc] \in Range(pipelineErrors)

\* C16: when a workflow of the chain or the tail fails during pipeline.runFor,
\* runFor rejects with "Pipeline failed" wrapping the failure, an error event is
\* dispatched on the pipeline, and nothing after the failing workflow is started.
C16_FailureRejectsAndStops ==
  call.mode = "pipeline" =>
     /\ \A h \in 1..Len(SnapTasks) :
          FailedAt(h) => /\ PipelineFailedWith("task error")
                         /\ trace = Fwds(SubSeq(SnapTasks, 1, h))
     /\ TailFailed => /\ PipelineFailedWith("tail error")
                      /\ trace = Fwds(SnapTasks) \o <<[ev |-> "tail", id |-> 0]>>

C16_Witness ==
  /\ status = "rejected" /\ call.mode = "pipeline"
  /\ Len(SnapTasks) = 3 /\ FailedAt(2)
  /\ \E i \in 1..Len(snap) : isPipeline(snap[i]) /\ snap[i].workflows # <<>>
  /\ Len(pipelineErrors) = 2

\* A rejecting tail has been reached and the call has settled.
C16_WitnessTail ==
  /\ status = "rejected" /\ call.mode = "pipeline" /\ TailFailed
  /\ Len(SnapTasks) >= 2

(***************************************************************************)
(*                     PROPERTIES OF PART 2                                *)
(***************************************************************************)
\* C4: a node with concurrency limit k >= 1 whose contexts arrive through read
\* never has more than k Node.runFor invocations in flight.
C4_BoundedConcurrency ==
  (concurrency.defined /\ concurrency.value >= 1) =>
     Cardinality(running) <= concurrency.value

C4_Witness ==
  /\ concurrency.defined
  /\ Cardinality(accepted) > concurrency.value
  /\ Cardinality(running) = concurrency.value
  /\ queue # <<>>
  /\ settled # {}

\* C5: on a node that stays initialized and whose runs do not hang, every
\* context read has queued is passed to Node.runFor, its run settles, and no
\* context is passed to Node.runFor twice.
C5_EveryContextRunsOnce ==
  /\ [](\A c \in Ctxs : ran[c] <= 1)
  /\ \A c \in Ctxs : [](c \in accepted => <>(ran[c] = 1 /\ c \in settled))

C5_Witness ==
  /\ Cardinality(accepted) >= 3
  /\ settled = accepted
  /\ concurrency = Limit(1)
  /\ \A c \in accepted : ran[c] = 1
  /\ ~looping /\ queue = <<>>

\* A step of the drain loop from the settlement of its batch to its next await
\* or its end.
LoopResumeStep ==
  /\ looping /\ Range(batch) \cap running = {}
  /\ batch' # batch \/ ~looping'

\* C26: when runs of a batch fail inside the drain loop, the failures are
\* reported through one error event and the loop goes on: every context that
\* is still in the queue is run, and no read rejects because of a failed run.
C26_LoopSurvivesFailedBatch ==
  /\ [][(LoopResumeStep /\ rejected # {}) =>
          errorEvents' = errorEvents + 1]_vars
  /\ \A c \in Ctxs :
       [](((\E i \in 1..Len(queue) : queue[i] = c) /\ rejected # {})
            => <>(ran[c] = 1 /\ c \in settled))
  /\ [](readError = "")

\* A batch has failed and a later batch has run and settled without failure.
C26_Witness ==
  /\ errorEvents >= 1 /\ looping
  /\ batch # <<>> /\ rejected = {}
  /\ Range(batch) \subseteq settled
  /\ \A c \in Range(batch) : ran[c] = 1

(***************************************************************************)
(*                     PROPERTIES OF PART 3                                *)
(***************************************************************************)
\* Every node of the graph is the target of some edge of the graph (a graph
\* with no nodes included).
NoEntryNode ==
  \A n \in Range(nodes) : \E e \in Range(edges) : edgeEnds[e].target = n

NothingDelivered == \A n \in Nodes : delivered[n] = 0

\* C6 as stated: Graph.runFor on a graph with no nodes, or whose nodes are all
\* the target of some edge, rejects with the error "Graph has no input nodes"
\* and delivers the context to no node.
C6_RejectsWithNoInputNodes ==
  (graphRuns > 0 /\ NoEntryNode) =>
     /\ graphRun.status = "rejected"
     /\ graphRun.message = "Graph has no input nodes"
     /\ NothingDelivered

\* C6 amended: Graph.runFor on such a graph rejects with the aggregate error
\* "Failed to run graph" whose only cause is "Graph has no input nodes"; no
\* node is dispatched to and the context is delivered to no node.
C6_RejectsWrappingNoInputNodes ==
  (graphRuns > 0 /\ NoEntryNode) =>
     /\ graphRun.status = "rejected"
     /\ graphRun.message = "Failed to run graph"
     /\ graphRun.causes = <<"Graph has no input nodes">>
     /\ graphRun.dispatched = {}
     /\ NothingDelivered

C6_Witness ==
  /\ graphRuns > 0 /\ NoEntryNode
  /\ Len(nodes) = 2 /\ Len(edges) = 2
  /\ graphRun.status = "rejected"
  /\ graphRun.causes = <<"Graph has no input nodes">>

\* The entry nodes of the last run whose dispatch failed: the node could not be
\* read from, or its incoming hook rejected.
FailedEntries ==
  {n \in Range(graphRun.targets) : ReadThrows(n) # "" \/ n \in graphRun.failing}

\* C7: when j >= 1 of the dispatches of Graph.runFor to its entry nodes fail,
\* every entry node is still dispatched to, and runFor rejects with the
\* aggregate error "Failed to run graph" with exactly j causes, also when an
\* entry node is uninitialized or corrupted.
C7_SettleAllWithOneCausePerFailure ==
  (graphRuns > 0 /\ FailedEntries # {}) =>
     /\ graphRun.dispatched = Range(graphRun.targets)
     /\ graphRun.status = "rejected"
     /\ graphRun.message = "Failed to run graph"
     /\ Len(graphRun.causes) = Cardinality(FailedEntries)

Incident(e, n) == edgeEnds[e].source = n \/ edgeEnds[e].target = n

\* C8: after Graph.removeNode(n) has completed, no edge with n as source or
\* target is in the graph's edge set or in the edge set of another node, n is
\* not in the graph's node set, and n's graph back-reference is cleared.
C8_RemoveNodeRemovesIncidentEdges ==
  \A n \in Nodes :
    lastOp = [op |-> "removeNode", arg |-> n, ok |-> TRUE] =>
      /\ \A e \in 1..Len(edgeEnds) :
            Incident(e, n) =>
              /\ e \notin Range(edges)
              /\ \A m \in Nodes \ {n} : e \notin Range(nodeEdges[m])
      /\ n \notin Range(nodes)
      /\ ~nodeGraph[n]

\* C17: runWorkflow on a graph with a continuation invokes the continuation
\* once for every graph run that has completed (resolved), and not while the
\* run it awaits is still in progress; a run that rejects completes nothing and
\* runWorkflow rejects without invoking it.
C17_ContinuationOncePerCompletedRun ==
  /\ graphCall.pc = "awaiting" =>
       graphCall.tailCalls + (IF graphCall.result = "resolved" /\ graphCall.tail
                              THEN 1 ELSE 0) = graphCall.completions
  /\ graphCall.pc \in {"resolved", "rejected"} =>
       /\ graphCall.tailCalls = graphCall.completions
       /\ graphCall.pc = graphCall.result

C17_Witness ==
  /\ graphCall.pc = "resolved" /\ graphCall.tail
  /\ graphCall.tailCalls = 1
  /\ graphRun.status = "resolved" /\ Len(graphRun.targets) = 2

\* A run that rejected: the continuation has not been invoked.
C17_WitnessRejected ==
  /\ graphCall.pc = "rejected" /\ graphCall.tail
  /\ graphCall.tailCalls = 0 /\ graphRun.targets # <<>>

(***************************************************************************)
(*                     PROPERTIES OF PART 4                                *)
(***************************************************************************)
\* C9: once flush has been called on an Output, every later flush call on it
\* rejects with "Queue has already been flushed." and writes to no edge.
C9_FlushIsOneShot ==
  \A i \in 2..Len(flushes) :
    /\ flushes[i].wrote = {}
    /\ flushes[i].status # "pending" =>
          /\ flushes[i].status = "rejected"
          /\ flushes[i].message = "Queue has already been flushed."

\* C10: an Edge.write call on an edge that has been written before is rejected
\* with "Edge has already been written".
C10_SecondWriteRejected ==
  \A i \in 1..Len(edgeWrites) :
    edgeWrites[i].nth > 1 =>
      /\ edgeWrites[i].result.status = "rejected"
      /\ edgeWrites[i].result.message = "Edge has already been written"

\* C11: source.process(e, ctx) on an outgoing edge e, with every hook passing on
\* and both nodes initialized, completes and puts ctx on the target's queue.
C11_ProcessDeliversToTarget ==
  \A i \in 1..Len(processes) :
    processes[i].defaults =>
      /\ processes[i].status = "resolved"
      /\ targetQueue > 0

(***************************************************************************)
(*                     PROPERTIES OF PART 5                                *)
(***************************************************************************)
PushSettled == push.status \in {"resolved", "rejected"}

\* The items of the push call whose append failed: their hook threw.
FailedItems ==
  {i \in 1..Len(push.args) : push.args[i] \in {"throw", "nextThrow"}}

Count(ws, w) == Cardinality({k \in 1..Len(ws) : ws[k] = w})

\* C12: after push(w1..wn) has settled, the workflow list is its previous
\* contents followed by exactly the wi whose push hook completed successfully,
\* each of them once.
C12_PushCommitsSuccessfulItemsOnce ==
  (PushSettled /\ push.args # <<>>) =>
     /\ IsPrefix(push.before, workflows)
     /\ \A i \in 1..Len(push.args) :
          Count(workflows, PushTask(i)) = IF i \in FailedItems THEN 0 ELSE 1

\* C13: a push of at least one workflow rejects exactly when an append failed;
\* the message is "All pushes failed" when every append failed and "Some pushes
\* failed" otherwise, and the error has one cause per failed append.
C13_PushRejectsIffAnAppendFailed ==
  (PushSettled /\ push.args # <<>>) =>
     /\ push.status = "rejected" <=> FailedItems # {}
     /\ FailedItems # {} =>
          /\ push.causes = Cardinality(FailedItems)
          /\ push.message = IF Cardinality(FailedItems) = Len(push.args)
                            THEN "All pushes failed"
                            ELSE "Some pushes failed"

C13_Witness ==
  /\ PushSettled /\ Len(push.args) = 2
  /\ push.args[1] = "throw" /\ push.args[2] = "throw"
  /\ push.message = "All pushes failed" /\ push.causes = 2

\* C14: push with no workflow rejects with "No workflows provided", runs no
\* push hook and leaves the workflow list as it was.
C14_PushOfNothingRejects ==
  (push.status # "none" /\ push.args = <<>>) =>
     /\ push.status = "rejected"
     /\ push.message = "No workflows provided"
     /\ push.state = <<>>
     /\ workflows = push.before

C14_Witness ==
  /\ push.status = "rejected" /\ push.args = <<>>
  /\ push.before # <<>> /\ workflows = push.before

(***************************************************************************)
(*                     PROPERTIES OF PART 7                                *)
(***************************************************************************)
\* C18: an operation other than construction that is called while the node is
\* corrupted or not initialized fails at once as a rejected promise, without
\* running its hook and without changing the node's edge set or queue.
C18_RefusedAsRejectedPromise ==
  (lastCall.op # "none" /\ ~lastCall.usable) =>
     /\ lastCall.outcome = "rejected"
     /\ ~lastCall.hookRan
     /\ ~lastCall.changed

C20_CorruptionIsSticky ==
  /\ [][corrupted => corrupted']_vars
  /\ [](lastCall.wasCorrupted => lastCall.outcome \in {"rejected", "thrown"})

\* An operation has been refused on a node that was corrupted by a failed
\* destroy and then marked initialized by its init hook.
C20_Witness ==
  /\ corrupted /\ initialized
  /\ lastCall.wasCorrupted /\ lastCall.op = "addEdge"
  /\ lastCall.outcome = "rejected"
  /\ lastCall.cause = "Cannot add edge to corrupted node"

\* C21: the construction of a node ends in exactly one of two outcomes: the
\* node is initialized and not corrupted and "nodeInitialized" has been
\* emitted, or it is corrupted and not initialized and
\* "nodeInitializationError" has been emitted; "nodeInitialized" is never
\* emitted for a node that is not initialized.
C21_ConstructionHasTwoOutcomes ==
  constructed.done =>
     \/ /\ constructed.initialized /\ ~constructed.corrupted
        /\ nodeEvents = <<"nodeInitialized">>
     \/ /\ constructed.corrupted /\ ~constructed.initialized
        /\ nodeEvents = <<"nodeInitializationError">>

\* A step that is a call of Node.runFor.
RunForStep == nodeOps' # nodeOps /\ lastCall'.op = "runFor"

\* A step in which the init hook or #init fails, or destroy() is refused.
InitOrDestroyFailure ==
  \/ initPending /\ ~initPending'
  \/ /\ nodeOps' # nodeOps /\ lastCall'.op = "destroy"
     /\ lastCall'.outcome = "rejected"

\* C22: a failure of the run logic or of the flush inside Node.runFor rejects
\* that runFor with an aggregate error and leaves the initialized and
\* corrupted flags and the edge set as they were; a later runFor whose run
\* succeeds still resolves; only a failure of init or destroy sets the
\* corrupted flag.
C22_RunFailureDoesNotCorrupt ==
  /\ [][RunForStep => UNCHANGED <<initialized, corrupted, nodeEdgeSet>>]_vars
  /\ [][(~corrupted /\ corrupted') => InitOrDestroyFailure]_vars
  /\ []((lastCall.op = "runFor" /\ lastCall.usable /\ lastCall.input # "ok"
          /\ opHooks["runFor"] = "next")
        => /\ lastCall.outcome = "rejected"
           /\ lastCall.message = "Failed to run node for context")
  /\ []((lastCall.op = "runFor" /\ lastCall.usable /\ lastCall.input = "ok")
        => lastCall.outcome = "resolved")

\* A run has failed in its flush and a later run on the same node resolved.
C22_Witness ==
  /\ lastCall.op = "runFor" /\ lastCall.afterRunFailure
  /\ lastCall.outcome = "resolved" /\ lastCall.input = "ok"
  /\ opHooks["runFor"] = "next" /\ errorEvents = 2
  /\ initialized /\ ~corrupted

(***************************************************************************)
(*                     MORE PROPERTIES OF PART 3                           *)
(***************************************************************************)
\* C23: after any sequence of Graph.addEdge, Graph.removeEdge and
\* Graph.removeNode calls, calls that fail partway included, every edge is in
\* all three of the graph's edge set, its source's edge set and its target's
\* edge set, or in none of them.
C23_EdgeInAllSetsOrNone ==
  \A e \in 1..Len(edgeEnds) :
    LET inGraph == e \in Range(edges)
        inSource == e \in Range(nodeEdges[edgeEnds[e].source])
        inTarget == e \in Range(nodeEdges[edgeEnds[e].target])
    IN  (inGraph /\ inSource /\ inTarget) \/ ~(inGraph \/ inSource \/ inTarget)

\* C24: the source and the target of every edge in the graph's edge set are
\* members of the graph's node set.
C24_EdgeEndsAreGraphNodes ==
  \A e \in Range(edges) :
    /\ edgeEnds[e].source \in Range(nodes)
    /\ edgeEnds[e].target \in Range(nodes)


(***************************************************************************)
(*                     PROPERTIES OF PART 8                                *)
(***************************************************************************)
\* The graphs whose node set holds node n.
GraphsHolding(n) == {g \in Graphs : n \in graphNodes[g]}

\* C25: across any sequence of addNode and removeNode calls on several graphs,
\* a node is in at most one graph's node set, and its back-reference names
\* exactly the graph that holds it and is unset when no graph holds it.
C25_OneGraphPerNode ==
  \A n \in Nodes :
    /\ Cardinality(GraphsHolding(n)) <= 1
    /\ GraphsHolding(n) = IF graphOf[n] = 0 THEN {} ELSE {graphOf[n]}


(***************************************************************************)
(*            PROPERTIES OF NODE.RUNFOR AND ITS OUTPUT                     *)
(***************************************************************************)
\* Node.runFor has settled after its run logic returned.
RunForSettled == nodeRun.pc \in {"resolved", "rejected"}

\* The run logic has called output.flush itself.
FlushedByRunLogic == \E i \in 1..Len(flushes) : i # nodeRun.flush

\* Every hook on the way of every edge calls its continuation and the nodes
\* are initialized.
AllDefaults == \A e \in OEdges : Defaults(e)

\* C27: with hooks that pass every write on, once the run logic has returned
\* and Node.runFor has settled, runFor has resolved and every edge queued on
\* the run's Output has been written exactly once; and when the run logic
\* disabled autoFlush or flushed the Output itself, runFor has called no flush
\* of its own.
C27_AutoFlushWritesEachEdgeOnce ==
  (RunForSettled /\ AllDefaults) =>
    IF ~autoFlush \/ FlushedByRunLogic
    THEN nodeRun.flush = 0
    ELSE /\ nodeRun.pc = "resolved"
         /\ \A e \in Range(outEdges) : written[e] = 1


\* The cases in which Output.queue(e) is to fail: the Output is marked flushed,
\* e is queued already, or e leaves another node.
QueueMustFail(e) == flushed \/ e \in Range(outEdges) \/ e = ForeignEdge

\* Every queued edge leaves the Output's node and is queued once.
QueueHoldsOwnEdgesOnce ==
  /\ \A i \in 1..Len(outEdges) : outEdges[i] # ForeignEdge
  /\ \A i, j \in 1..Len(outEdges) : outEdges[i] = outEdges[j] => i = j

\* C28: Output.queue(edge) fails and leaves the queued edges as they are when
\* the Output is marked flushed, when the edge is queued already and when the
\* edge's source is not the Output's node; so every edge the queue ever holds
\* leaves the Output's node and is held once.
C28_QueueRefusesFlushedDuplicateForeign ==
  /\ []QueueHoldsOwnEdgesOnce
  /\ [][\A e \in QueueInputs :
          (Queue(e) /\ QueueMustFail(e)) =>
            (queueError' # "" /\ outEdges' = outEdges)]_vars

C28_Witness ==
  /\ queueError = "Edge does not belong to this node."
  /\ outEdges # <<>>
  /\ ~flushed


\* C29: on a usable node whose hook leaves the intent flag at its default (and
\* calls its continuation), Node.addEdge of an edge that is in the node's edge
\* set rejects and Node.removeEdge of an edge that is not in it rejects, and
\* neither changes the edge set.
C29_RepeatedAddOrRemoveFails ==
  [][\A e \in NodeEdgeIds :
       /\ ( /\ CallAddEdge(e)
            /\ GuardMessage("addEdge") = "" /\ opHooks["addEdge"] = "next"
            /\ e \in nodeEdgeSet )
          => (lastCall'.outcome = "rejected" /\ nodeEdgeSet' = nodeEdgeSet)
       /\ ( /\ CallRemoveEdge(e)
            /\ GuardMessage("removeEdge") = "" /\ opHooks["removeEdge"] = "next"
            /\ e \notin nodeEdgeSet )
          => (lastCall'.outcome = "rejected" /\ nodeEdgeSet' = nodeEdgeSet)]_vars


(***************************************************************************)
(*            PROPERTIES OF GRAPH.DUPLICATE                                *)
(***************************************************************************)
\* The graph has not changed since the duplicate was made.
JustDuplicated == copy.made /\ lastOp.op = "duplicate"

\* C30: a deep duplicate of a graph has as many nodes and as many edges as the
\* graph, each of its edges connects the duplicates of the source and of the
\* target of the edge it was made from, and it shares no node and no edge
\* with the graph; a duplicate made without deep holds the very nodes of the
\* graph.
C30_DuplicateKeepsTopology ==
  JustDuplicated =>
    /\ Len(copy.nodes) = Len(nodes)
    /\ Len(copy.edges) = Len(edges)
    /\ copy.deep =>
         /\ \A i \in 1..Len(copy.nodes) :
              /\ copy.nodes[i].id \notin Nodes
              /\ copy.nodes[i].parent = nodes[i]
         /\ \A i \in 1..Len(copy.edges) :
              /\ copy.edges[i].id \notin 1..MaxEdges
              /\ copy.edges[i].source \in Range(copy.nodes)
              /\ copy.edges[i].source.parent = edgeEnds[edges[i]].source
              /\ copy.edges[i].target \in Range(copy.nodes)
              /\ copy.edges[i].target.parent = edgeEnds[edges[i]].target
    /\ ~copy.deep =>
         {copy.nodes[i] : i \in 1..Len(copy.nodes)} =
           {Original(nodes[i]) : i \in 1..Len(nodes)}


(***************************************************************************)
(*            PROPERTIES OF THE DRAIN LOOP'S ORDER                         *)
(***************************************************************************)
\* The contexts Node.runFor is invoked with in this step.
Started == {c \in Ctxs : ran'[c] > ran[c]}

\* The queue the loop splices in this step: the queue, with the context read
\* queues in the same step at its end.
QueueAtSplice ==
  IF accepted' = accepted THEN queue
  ELSE Append(queue, CHOOSE c \in accepted' : c \notin accepted)

\* The length of the longest prefix of q the concurrency limit allows.
PrefixLength(q) ==
  IF concurrency.defined /\ concurrency.value < Len(q)
  THEN concurrency.value ELSE Len(q)

QueuedWhileLooping == looping /\ accepted' # accepted

SettledFlushes ==
  {i \in 1..Len(flushes) :
     /\ flushes[i].status # "pending"
     /\ flushes[i].message # "Queue has already been flushed."}

\* C33: a flush whose writes do not all succeed still attempts every queued
\* edge and rejects with the aggregate error "One or more edges failed to
\* process.", with one cause per failed write; and the Output is marked
\* flushed only when a flush has had every write succeed.
C33_FlushAggregatesFailedWrites ==
  /\ \A i \in SettledFlushes :
       flushes[i].status = "rejected" =>
         /\ flushes[i].message = "One or more edges failed to process."
         /\ Len(flushes[i].causes) = Len(flushes[i].failed)
         /\ Len(flushes[i].causes) >= 1
  /\ flushed => \E i \in SettledFlushes :
                  flushes[i].status = "resolved" /\ flushes[i].failed = <<>>


\* C34: a node is never initialized and corrupted at once.
C34_NeverInitializedAndCorrupted == ~(initialized /\ corrupted)


\* C35: no context is stranded in the queue of a node: whenever the queue holds
\* a context, the drain loop of the node is running.
C35_NoContextStranded == queue # <<>> => looping


(***************************************************************************)
(*            PROPERTIES OF CONTINUATIONS CALLED MORE THAN ONCE            *)
(***************************************************************************)
\* How often task i has been dispatched: its forward parts in the trace.
Dispatches(i) ==
  Cardinality({k \in 1..Len(trace) :
                 trace[k].ev = "fwd" /\ trace[k].id = i})

\* C37: in one run of Pipeline.runFor every workflow of the snapshot is
\* dispatched at most once and the caller's tail is invoked at most once,
\* also when a task calls next more than once.
C37_DispatchAndTailAtMostOnce ==
  /\ \A i \in 1..MaxTasks : Dispatches(i) <= 1
  /\ tailCalls <= 1


\* C36: within one Node.runFor invocation the run logic is started at most
\* once, and every call of the continuation after the first is refused with
\* "Node has already been run", whether or not the earlier call has returned.
C36_RunLogicAtMostOncePerInvocation ==
  \A r \in 1..Len(runCalls) :
    /\ runCalls[r].logic <= 1
    /\ \A i \in 2..Len(runCalls[r].conts) : runCalls[r].conts[i] = "refused"


\* What the settled push has appended to the pipeline.
Pushed == SubSeq(workflows, Len(push.before) + 1, Len(workflows))

\* C38: when push(w1..wn) has resolved, the workflows it appended are in the
\* pipeline in argument order, whatever the push hook did for each and
\* however long it took.
C38_PushKeepsArgumentOrder ==
  push.status = "resolved" =>
    \A j, k \in 1..Len(Pushed) : j < k => Pushed[j].id <= Pushed[k].id


\* C39: over the lifetime of an Output every queued edge is written with the
\* run's context at most once, whatever flushes the run logic and Node.runFor
\* call, and whether or not an earlier flush has failed or is still awaiting.
C39_EdgeWrittenAtMostOnce == \A e \in OEdges : written[e] <= 1


\* C40: the drain loop ends for every concurrency option: every iteration it
\* makes on a non-empty queue takes at least one context off the queue, so a
\* loop that is awaiting a batch is awaiting at least one run.
C40_EveryIterationTakesAContext == looping => Len(batch) >= 1

=========================================================================
